---- MODULE Spec2Model ----
(***************************************************************************)
(* Model of the two evaluators of MathBot:                                 *)
(*   - Calculator (bot/ext/calculator.py): reduction of an infix           *)
(*     expression by iterated regular-expression substitution;             *)
(*   - EquationSolver (bot/ext/equation.py): construction and evaluation   *)
(*     for the four equation shapes.                                       *)
(* Strings are sequences of one-character strings.  Python numbers are     *)
(* records [n, d, f, nz]: the reduced fraction n/d, f = "is a float",      *)
(* nz = "is the float -0.0".                                               *)
(***************************************************************************)
EXTENDS Integers, Sequences, FiniteSets, TLC

(***************************************************************************)
(* Bounds of the model.                                                    *)
(***************************************************************************)
\* longest expression enumerated exhaustively over Alphabet
MaxLen == 3
\* largest binary exponent of a float denominator whose repr is computed
MaxDenExp == 6

(***************************************************************************)
(* Characters and strings.                                                 *)
(***************************************************************************)
Digits == {"0", "1", "2", "3", "4", "5", "6", "7", "8", "9"}

DigitVal(c) ==
    CASE c = "0" -> 0 [] c = "1" -> 1 [] c = "2" -> 2 [] c = "3" -> 3
      [] c = "4" -> 4 [] c = "5" -> 5 [] c = "6" -> 6 [] c = "7" -> 7
      [] c = "8" -> 8 [] c = "9" -> 9

DigitChar(k) ==
    CASE k = 0 -> "0" [] k = 1 -> "1" [] k = 2 -> "2" [] k = 3 -> "3"
      [] k = 4 -> "4" [] k = 5 -> "5" [] k = 6 -> "6" [] k = 7 -> "7"
      [] k = 8 -> "8" [] k = 9 -> "9"

\* the characters of the expressions enumerated exhaustively
Alphabet == {"0", "2", "4", ".", "+", "-", "*", "/"}

Strings(k) == UNION {[1..j -> Alphabet] : j \in 0..k}

(***************************************************************************)
(* Python numbers.                                                         *)
(***************************************************************************)
Abs(a) == IF a < 0 THEN -a ELSE a

RECURSIVE Gcd(_, _)
Gcd(a, b) == IF b = 0 THEN a ELSE Gcd(b, a % b)

RECURSIVE Pow(_, _)
Pow(b, k) == IF k = 0 THEN 1 ELSE b * Pow(b, k - 1)

\* the fraction a/b (b # 0) in lowest terms with a positive denominator
Frac(a, b) ==
    LET g == Gcd(Abs(a), Abs(b))
        s == IF b < 0 THEN -1 ELSE 1
    IN  [n |-> s * (a \div g), d |-> s * (b \div g)]

PyInt(k) == [n |-> k, d |-> 1, f |-> FALSE, nz |-> FALSE]
FloatOf(q) == [n |-> q.n, d |-> q.d, f |-> TRUE, nz |-> FALSE]
PyFloat(a, b) == FloatOf(Frac(a, b))
NegZero == [n |-> 0, d |-> 1, f |-> TRUE, nz |-> TRUE]

\* a binary float holds n/d exactly iff d is a (small) power of two
IsPow2(d) == \E k \in 0..MaxDenExp : d = Pow(2, k)
Log2(d) == CHOOSE k \in 0..MaxDenExp : d = Pow(2, k)
Exact(v) == IsPow2(v.d)

(***************************************************************************)
(* utils.num: float(n), then int(n) when n.is_integer().                   *)
(***************************************************************************)
RECURSIVE DigitsEnd(_, _)
\* index of the last character of the longest run of digits of s that
\* starts at i; i - 1 when s has no digit at i
DigitsEnd(s, i) ==
    IF i <= Len(s) /\ s[i] \in Digits THEN DigitsEnd(s, i + 1) ELSE i - 1

RECURSIVE DigitsVal(_, _, _)
\* the value of the digits s[i..j] read in base ten (0 for an empty range)
DigitsVal(s, i, j) ==
    IF j < i THEN 0 ELSE 10 * DigitsVal(s, i, j - 1) + DigitVal(s[j])

\* the strings float() accepts among those built from signs, digits and
\* '.': [sign] digits [. digits*]  or  [sign] . digits
IsFloatLiteral(t) ==
    LET st == IF Len(t) >= 1 /\ t[1] \in {"+", "-"} THEN 2 ELSE 1
        e1 == DigitsEnd(t, st)
        hasDot == e1 + 1 <= Len(t) /\ t[e1 + 1] = "."
        e2 == IF hasDot THEN DigitsEnd(t, e1 + 2) ELSE e1
    IN  /\ e2 = Len(t)
        /\ (e1 >= st \/ (hasDot /\ e2 >= e1 + 2))

\* float(t) of a float literal t, as a fraction
LiteralValue(t) ==
    LET st == IF Len(t) >= 1 /\ t[1] \in {"+", "-"} THEN 2 ELSE 1
        sg == IF Len(t) >= 1 /\ t[1] = "-" THEN -1 ELSE 1
        e1 == DigitsEnd(t, st)
        hasDot == e1 + 1 <= Len(t) /\ t[e1 + 1] = "."
        k  == IF hasDot THEN Len(t) - (e1 + 1) ELSE 0
        ip == DigitsVal(t, st, e1)
        fp == IF hasDot THEN DigitsVal(t, e1 + 2, Len(t)) ELSE 0
    IN  Frac(sg * (ip * Pow(10, k) + fp), Pow(10, k))

\* if n.is_integer(): n = int(n)
Trim(q) == IF q.d = 1 THEN PyInt(q.n) ELSE FloatOf(q)

\* the number a float literal denotes, as utils.num returns it
num(t) == Trim(LiteralValue(t))

(***************************************************************************)
(* str() of a Python number.                                               *)
(***************************************************************************)
RECURSIVE NatStr(_)
NatStr(k) ==
    IF k < 10 THEN <<DigitChar(k)>>
    ELSE NatStr(k \div 10) \o <<DigitChar(k % 10)>>

RECURSIVE PadStr(_, _)
\* the decimal digits of k, left-padded with zeros to w characters
PadStr(k, w) ==
    IF w = 0 THEN <<>> ELSE PadStr(k \div 10, w - 1) \o <<DigitChar(k % 10)>>

IntStr(k) == IF k < 0 THEN <<"-">> \o NatStr(-k) ELSE NatStr(k)

\* repr of the float n/d, d = 2^k: n/d = (n * 5^k) / 10^k has exactly k
\* fractional digits; an integral float prints with '.0'
FloatStr(v) ==
    LET a  == Abs(v.n)
        k  == Log2(v.d)
        sg == IF v.n < 0 \/ v.nz THEN <<"-">> ELSE <<>>
    IN  sg \o NatStr(a \div v.d) \o <<".">> \o
        (IF k = 0 THEN <<"0">> ELSE PadStr((a % v.d) * Pow(5, k), k))

Str(v) == IF v.f THEN FloatStr(v) ELSE IntStr(v.n)

(***************************************************************************)
(* The arithmetic of sub_fn's conv table.  A result is [err, v]; err is    *)
(* "none", a Python exception name, or "Inexact" when an operand or the    *)
(* result is not held exactly by a binary float (rounding is outside the   *)
(* model).                                                                 *)
(***************************************************************************)
NoValue == PyInt(0)
Ok(v) == [err |-> "none", v |-> v]
Raise(e) == [err |-> e, v |-> NoValue]

Checked(x, y, v) ==
    IF Exact(x) /\ Exact(y) /\ Exact(v) THEN Ok(v) ELSE Raise("Inexact")

\* the sign bit of v as a float is set
IsNeg(v) == v.n < 0 \/ v.nz

\* a float zero result of * or / carries the sign of the operands
ZeroSign(x, y) == IF IsNeg(x) # IsNeg(y) THEN NegZero ELSE PyFloat(0, 1)

\* a division that yields 0 for a zero divisor
TrueDivGuarded(x, y) ==
    IF y.n = 0 THEN Ok(PyInt(0))
    ELSE IF x.n = 0 THEN Checked(x, y, ZeroSign(x, y))
    ELSE Checked(x, y, PyFloat(x.n * y.d, x.d * y.n))

TrueDiv(x, y) ==
    IF y.n = 0 THEN Raise("ZeroDivisionError")
    ELSE IF x.n = 0 THEN Checked(x, y, ZeroSign(x, y))
    ELSE Checked(x, y, PyFloat(x.n * y.d, x.d * y.n))

\* the result q of an operation on x and y: an int when both are ints
Typed(x, y, q) ==
    IF ~(x.f \/ y.f) THEN Ok(PyInt(q.n)) ELSE Checked(x, y, FloatOf(q))

Mul(x, y) ==
    IF (x.n = 0 \/ y.n = 0) /\ (x.f \/ y.f)
    THEN Checked(x, y, ZeroSign(x, y))
    ELSE Typed(x, y, Frac(x.n * y.n, x.d * y.d))

Sub2(x, y) == Typed(x, y, Frac(x.n * y.d - y.n * x.d, x.d * y.d))

Add(x, y) == Typed(x, y, Frac(x.n * y.d + y.n * x.d, x.d * y.d))

conv(op, x, y) ==
    CASE op = "/" -> TrueDiv(x, y)
      [] op = "*" -> Mul(x, y)
      [] op = "-" -> Sub2(x, y)
      [] op = "+" -> Add(x, y)

(***************************************************************************)
(* The regular expressions of Calculator.  NUM_PAT is                      *)
(* [-+]?\d+\.?\d*  (utils.py); bot/calculator.py uses -?\d+\.?\d* , so     *)
(* the set of sign characters is a parameter.                              *)
(***************************************************************************)
ExtSigns == {"-", "+"}

\* index of the last character of the greedy match of  [signs]?\d+\.?\d*
\* that starts at position i of s; 0 when there is no match at i
\* \d+\.?\d* from st on, e1 being the end of the run of digits at st
NumTail(s, st, e1) ==
    IF e1 < st THEN 0
    ELSE DigitsEnd(s, IF e1 + 1 <= Len(s) /\ s[e1 + 1] = "." THEN e1 + 2
                      ELSE e1 + 1)

NumFrom(s, st) == NumTail(s, st, DigitsEnd(s, st))

NumEnd(s, i, signs) ==
    NumFrom(s, IF i <= Len(s) /\ s[i] \in signs THEN i + 1 ELSE i)

\* index of the last character of the match of  NUM \op NUM  that starts
\* at position i; 0 when there is none.  The operator is no digit and no
\* '.', so the first NUM can only end where its greedy match ends.
MatchTail(s, e1, op, signs) ==
    IF e1 = 0 \/ e1 + 1 > Len(s) \/ s[e1 + 1] # op THEN 0
    ELSE NumEnd(s, e1 + 2, signs)

\* a pattern whose first operand may be missing
MatchEndUnary(s, i, op, signs) ==
    IF s[i] = op THEN NumEnd(s, i + 1, signs)
    ELSE MatchTail(s, NumEnd(s, i, signs), op, signs)

MatchEnd(s, i, op, signs) == MatchTail(s, NumEnd(s, i, signs), op, signs)

\* re.search(NUM \op NUM, s) is not None
Search(s, op, signs) == \E i \in 1..Len(s) : MatchEnd(s, i, op, signs) # 0

RECURSIVE SplitFrom(_, _, _, _)
\* str.split(sep): the pieces of t between the occurrences of sep
SplitFrom(t, sep, i, cur) ==
    IF i > Len(t) THEN <<cur>>
    ELSE IF t[i] = sep THEN <<cur>> \o SplitFrom(t, sep, i + 1, <<>>)
    ELSE SplitFrom(t, sep, i + 1, Append(cur, t[i]))

Split(t, sep) == SplitFrom(t, sep, 1, <<>>)

\* sub_fn: the replacement of one match t.  Unpacking the split into
\* x, y raises ValueError unless there are exactly two pieces.
\* return str(...) of the value, or the exception
StrOf(r) ==
    IF r.err # "none" THEN [err |-> r.err, out |-> <<>>]
    ELSE [err |-> "none", out |-> Str(r.v)]

\* x, y = parts; x, y = num(x), num(y); return str(conv.get(operator)(x, y))
Unpack(parts, op) ==
    IF Len(parts) # 2 THEN [err |-> "ValueError", out |-> <<>>]
    ELSE IF ~(IsFloatLiteral(parts[1]) /\ IsFloatLiteral(parts[2]))
         THEN [err |-> "ValueError", out |-> <<>>]
    ELSE StrOf(conv(op, num(parts[1]), num(parts[2])))

sub_fn(t, op) == Unpack(Split(t, op), op)

RECURSIVE SubFrom(_, _, _, _)
RECURSIVE SubAt(_, _, _, _, _)
\* re.sub from position i on: the leftmost match is replaced and the scan
\* goes on behind it; the first exception of sub_fn ends the substitution
\* (a fold outside the exact arithmetic raises nothing: the scan goes on,
\* and the pass is "Inexact" unless a later match raises)
\* the output h of the scan's head followed by the output r of its rest
Join(h, r) ==
    IF h.err \notin {"none", "Inexact"} THEN h
    ELSE IF r.err \notin {"none", "Inexact"} THEN r
    ELSE IF h.err = "Inexact" THEN h
    ELSE IF r.err = "Inexact" THEN r
    ELSE [err |-> "none", out |-> h.out \o r.out]

\* position i, where the match ends at e (0: no match at i)
SubAt(s, i, e, op, signs) ==
    Join(IF e = 0 THEN [err |-> "none", out |-> <<s[i]>>]
         ELSE sub_fn(SubSeq(s, i, e), op),
         SubFrom(s, IF e = 0 THEN i + 1 ELSE e + 1, op, signs))

SubFrom(s, i, op, signs) ==
    IF i > Len(s) THEN [err |-> "none", out |-> <<>>]
    ELSE SubAt(s, i, MatchEnd(s, i, op, signs), op, signs)

re_sub(s, op, signs) == SubFrom(s, 1, op, signs)

\* the exceptions sub_regex catches and drops (except TypeError: pass)
Swallowed(e) == e = "TypeError"

\* sub_regex: the new expression, or the exception that leaves it
Handled(s, r) ==
    IF r.err = "none" THEN r
    ELSE IF Swallowed(r.err) THEN [err |-> "none", out |-> s]
    ELSE r

sub_regex(s, op, signs) == Handled(s, re_sub(s, op, signs))

operators == <<"/", "*", "-", "+">>

\* the test of the for loop: re.search finds a match of op
HasMatch(s, op, signs) == Search(s, op, signs)

\* a recur that never calls itself again
RecurOnce(s, op, signs) == FALSE

\* the test of recur after sub_regex: re.search still finds a match of op
RecurAgain(s, op, signs) == Search(s, op, signs)

\* bot/calculator.py: NUM_PAT is \d+\.?\d* and every use puts -? before it
OldSigns == {"-"}

\* str(Calculator(s)) as a function of s: [err, out]
RECURSIVE ForFrom(_, _, _)
RECURSIVE RecurFrom(_, _, _)
\* recur(op) after sub_regex ended with r
AfterRecur(r, i, signs) ==
    IF r.err # "none" THEN r
    ELSE IF RecurAgain(r.out, operators[i], signs) THEN RecurFrom(r.out, i, signs)
    ELSE ForFrom(r.out, i + 1, signs)

RecurFrom(s, i, signs) == AfterRecur(sub_regex(s, operators[i], signs), i, signs)

\* the for loop from operators[i] on
ForFrom(s, i, signs) ==
    IF i > Len(operators) THEN [err |-> "none", out |-> s]
    ELSE IF HasMatch(s, operators[i], signs) THEN RecurFrom(s, i, signs)
    ELSE ForFrom(s, i + 1, signs)

CalcStr(s, signs) == ForFrom(s, 1, signs)

(***************************************************************************)
(* EquationSolver (bot/ext/equation.py).                                   *)
(***************************************************************************)
Etypes == {"linear2", "linear3", "quadratic", "abcdformula"}

\* Etype.<shape>.value['vars']
EtypeVars(e) ==
    CASE e = "linear2"     -> {"y", "m", "b"}
      [] e = "linear3"     -> {"y", "a", "b", "c", "d"}
      [] e = "abcdformula" -> {"a", "b", "c", "d"}
      [] e = "quadratic"   -> {"y", "a", "b", "c"}

VALID_VARS == {"m", "a", "b", "c", "d", "y"}

\* the keyword names a caller can pass: VALID_VARS and an unknown name
AllKeys == VALID_VARS \cup {"z"}

\* equation=None
None == <<"None">>

\* the patterns of re.match, as tokens: "N" is (NUM_PAT), "*?" is \*?,
\* "+-" is (\+|-), any other token is that literal character
Pattern(e) ==
    CASE e = "linear2" ->
           <<"N", "=", "N", "*?", "x", "+-", "N">>
      [] e = "linear3" ->
           <<"N", "=", "x", "*?", "(", "N", "+-", "N", ")", "/",
             "(", "N", "+-", "N">>
      [] e = "quadratic" ->
           <<"N", "=", "N", "x", "^", "2", "+-", "N", "x", "+-", "N">>
      [] e = "abcdformula" ->
           <<"(", "N", "+-", "N", "*", "N", ")", "/", "N">>

NoMatch == [ok |-> FALSE, g |-> <<>>]

RECURSIVE PatMatch(_, _, _, _, _)
RECURSIVE NumGroup(_, _, _, _, _, _)
\* the token "N" at position i, e being the end of the number there
NumGroup(s, i, e, pat, k, acc) ==
    IF e = 0 THEN NoMatch
    ELSE PatMatch(s, e + 1, pat, k + 1, Append(acc, SubSeq(s, i, e)))

\* re.match of the tokens pat[k..] at position i of s, acc being the
\* groups captured so far (the "N" and "+-" groups, in order).  Every
\* token behind an "N" is a character no number contains, so a number can
\* only end where its greedy match ends.
PatMatch(s, i, pat, k, acc) ==
    IF k > Len(pat) THEN [ok |-> TRUE, g |-> acc]
    ELSE IF pat[k] = "N"
         THEN NumGroup(s, i, NumEnd(s, i, ExtSigns), pat, k, acc)
    ELSE IF pat[k] = "*?"
         THEN PatMatch(s, IF i <= Len(s) /\ s[i] = "*" THEN i + 1 ELSE i,
                       pat, k + 1, acc)
    ELSE IF i > Len(s) THEN NoMatch
    ELSE IF pat[k] = "+-"
         THEN IF s[i] \in {"+", "-"}
              THEN PatMatch(s, i + 1, pat, k + 1, Append(acc, <<s[i]>>))
              ELSE NoMatch
    ELSE IF s[i] = pat[k] THEN PatMatch(s, i + 1, pat, k + 1, acc)
    ELSE NoMatch

re_match(e, s) == PatMatch(s, 1, Pattern(e), 1, <<>>)

\* -v
Neg(v) == [n |-> -v.n, d |-> v.d, f |-> v.f, nz |-> FALSE]

SignedPlus(op, v) == v

\* b = -b if op == '-' else b
Signed(op, v) == IF op = <<"-">> THEN Neg(v) ELSE v

\* the coefficients read from the groups g of a match
GroupCoeffs(e, g) ==
    CASE e = "linear2" ->
           [k \in AllKeys |->
               CASE k = "y" -> num(g[1])
                 [] k = "m" -> num(g[2])
                 [] k = "b" -> Signed(g[3], num(g[4]))
                 [] OTHER -> NoValue]
      [] e = "linear3" ->
           [k \in AllKeys |->
               CASE k = "y" -> num(g[1])
                 [] k = "a" -> num(g[2])
                 [] k = "b" -> Signed(g[3], num(g[4]))
                 [] k = "c" -> num(g[5])
                 [] k = "d" -> Signed(g[6], num(g[7]))
                 [] OTHER -> NoValue]
      [] e = "quadratic" ->
           [k \in AllKeys |->
               CASE k = "y" -> num(g[1])
                 [] k = "a" -> num(g[2])
                 [] k = "b" -> Signed(g[3], num(g[4]))
                 [] k = "c" -> Signed(g[5], num(g[6]))
                 [] OTHER -> NoValue]
      [] e = "abcdformula" ->
           [k \in AllKeys |->
               CASE k = "a" -> num(g[1])
                 [] k = "b" -> Signed(g[2], num(g[3]))
                 [] k = "c" -> num(g[4])
                 [] k = "d" -> num(g[5])
                 [] OTHER -> NoValue]

\* the name the solver raises for an equation that does not match; the
\* module defines no InvalidEquation and imports none, so evaluating the
\* name raises NameError
RaisedForNoMatch == "NameError"

\* if terms := re.match(...): ...  else: raise InvalidEquation()
Parsed(e, m) ==
    IF m.ok THEN [err |-> "none", c |-> GroupCoeffs(e, m.g)]
    ELSE [err |-> RaisedForNoMatch, c |-> [k \in AllKeys |-> NoValue]]

\* every variable the branch of the shape asks for is in the bag
FullBag(e, bag) == EtypeVars(e) \subseteq bag.keys

CoeffsTextFirst(e, eq, bag) ==
    IF eq # None /\ re_match(e, eq).ok
    THEN Parsed(e, re_match(e, eq))
    ELSE IF FullBag(e, bag)
    THEN [err |-> "none",
          c |-> [k \in AllKeys |-> IF k \in bag.keys THEN PyInt(bag.val[k])
                                   ELSE NoValue]]
    ELSE IF eq = None
         THEN [err |-> "TypeError", c |-> [k \in AllKeys |-> NoValue]]
    ELSE Parsed(e, re_match(e, eq))

\* the coefficients evaluate works with: num() of the bag's values when
\* the bag has them all, the groups of re.match(pattern, self.equation)
\* otherwise; re.match raises TypeError for equation=None
Coeffs(e, eq, bag) ==
    IF FullBag(e, bag)
    THEN [err |-> "none",
          c |-> [k \in AllKeys |-> IF k \in bag.keys THEN PyInt(bag.val[k])
                                   ELSE NoValue]]
    ELSE IF eq = None
         THEN [err |-> "TypeError", c |-> [k \in AllKeys |-> NoValue]]
    ELSE Parsed(e, re_match(e, eq))

(***************************************************************************)
(* What evaluate returns or raises: [err, sol].  sol has kind "dict" (the  *)
(* keys of the dict, the numbers under 'm', 'b', 'y', 'a', 'c', and under  *)
(* 'x' one number or a tuple of roots [re, im, cx]), kind "str" (the step  *)
(* text alone) or kind "none".                                             *)
(***************************************************************************)
OutKeys == {"m", "a", "b", "c", "d", "y"}

NoSolution ==
    [kind |-> "none", keys |-> {}, val |-> [k \in OutKeys |-> NoValue],
     x |-> <<>>, tuple |-> FALSE]

Failed(e) == [err |-> e, sol |-> NoSolution]

Real(v) == [re |-> v, im |-> NoValue, cx |-> FALSE]
Complex(re, im) == [re |-> re, im |-> im, cx |-> TRUE]

\* the result r of an operation on two operands that may already have
\* failed: the first exception raised ends the evaluation
Lifted(rx, ry, r) ==
    IF rx.err # "none" THEN rx
    ELSE IF ry.err # "none" THEN ry
    ELSE r

DivOf(rx, ry) == Lifted(rx, ry, TrueDiv(rx.v, ry.v))
MulOf(rx, ry) == Lifted(rx, ry, Mul(rx.v, ry.v))
AddOf(rx, ry) == Lifted(rx, ry, Add(rx.v, ry.v))
SubOf(rx, ry) == Lifted(rx, ry, Sub2(rx.v, ry.v))

ReturnLinear2Moved(c, x) ==
    IF x.err # "none" THEN Failed(x.err)
    ELSE [err |-> "none",
          sol |-> [kind |-> "dict", keys |-> {"m", "b", "x", "y", "steps"},
                   val |-> [k \in OutKeys |->
                               CASE k = "m" -> c["m"]
                                 [] k = "b" -> PyInt(0)
                                 [] k = "y" -> Sub2(c["y"], c["b"]).v
                                 [] OTHER -> NoValue],
                   x |-> <<Real(x.v)>>, tuple |-> FALSE]]

\* return {'m': m, 'b': b, 'x': x, 'y': y, 'steps': steps}
ReturnLinear2(c, x) ==
    IF x.err # "none" THEN Failed(x.err)
    ELSE [err |-> "none",
          sol |-> [kind |-> "dict", keys |-> {"m", "b", "x", "y", "steps"},
                   val |-> [k \in OutKeys |->
                               IF k \in {"m", "b", "y"} THEN c[k] ELSE NoValue],
                   x |-> <<Real(x.v)>>, tuple |-> FALSE]]

SolveLinear2Plus(c) ==
    ReturnLinear2(c, DivOf(Add(c["y"], c["b"]), Ok(c["m"])))

\* mx = y - b; x = mx / m
SolveLinear2(c) ==
    ReturnLinear2(c, DivOf(Sub2(c["y"], c["b"]), Ok(c["m"])))

\* return {'m': ab, 'b': 0, 'x': x, 'y': xab, 'steps': steps}
ReturnLinear3(ab, xab, x) ==
    IF x.err # "none" THEN Failed(x.err)
    ELSE [err |-> "none",
          sol |-> [kind |-> "dict", keys |-> {"m", "b", "x", "y", "steps"},
                   val |-> [k \in OutKeys |->
                               CASE k = "m" -> ab.v
                                 [] k = "b" -> PyInt(0)
                                 [] k = "y" -> xab.v
                                 [] OTHER -> NoValue],
                   x |-> <<Real(x.v)>>, tuple |-> FALSE]]

\* x = xab / ab
DivLinear3(ab, xab) == ReturnLinear3(ab, xab, DivOf(xab, ab))

\* ab = a + b; cd = c + d; xab = y * cd
SolveLinear3(c) ==
    DivLinear3(Add(c["a"], c["b"]),
               MulOf(Ok(c["y"]), Add(c["c"], c["d"])))

\* the non-negative integer whose square is k, -1 when there is none
ISqrt(k) ==
    IF \E r \in 0..k : r * r = k THEN CHOOSE r \in 0..k : r * r = k ELSE -1

\* sqrt of the non-negative fraction n/d as a float
SqrtFloat(n, d) ==
    IF ISqrt(n) < 0 \/ ISqrt(d) < 0 THEN Raise("Inexact")
    ELSE Ok(PyFloat(ISqrt(n), ISqrt(d)))

TwoRootsSwapped(b, a2, dv, s) ==
    IF dv.n > 0
    THEN <<DivOf(SubOf(Ok(Neg(b)), s), Ok(a2)),
           DivOf(AddOf(Ok(Neg(b)), s), Ok(a2))>>
    ELSE <<DivOf(Ok(Neg(b)), Ok(a2)),
           DivOf(s, Ok(a2))>>

\* try: sqrtv = math.sqrt(b24ac)  except ValueError: sqrtv = cmath.sqrt(b24ac)
\* s is the square root of |b24ac|; the roots for a discriminant # 0
TwoRoots(b, a2, dv, s) ==
    IF dv.n > 0
    THEN <<DivOf(AddOf(Ok(Neg(b)), s), Ok(a2)),
           DivOf(SubOf(Ok(Neg(b)), s), Ok(a2))>>
    ELSE <<DivOf(Ok(Neg(b)), Ok(a2)),
           DivOf(s, Ok(a2))>>

\* return {'a': a, 'b': b, 'c': c, 'x': roots, 'y': y, 'steps': steps}
ReturnQuadratic(c, x) ==
    [err |-> "none",
     sol |-> [kind |-> "dict", keys |-> {"a", "b", "c", "x", "y", "steps"},
              val |-> [k \in OutKeys |->
                          IF k \in {"a", "b", "c", "y"} THEN c[k] ELSE NoValue],
              x |-> x, tuple |-> TRUE]]

\* roots = (roots1, roots2): two reals for a positive discriminant, a
\* conjugate pair re +- im j for a negative one
PairQuadratic(c, dv, r) ==
    IF r[1].err # "none" THEN Failed(r[1].err)
    ELSE IF r[2].err # "none" THEN Failed(r[2].err)
    ELSE IF dv.n > 0 THEN ReturnQuadratic(c, <<Real(r[1].v), Real(r[2].v)>>)
    ELSE ReturnQuadratic(c, <<Complex(r[1].v, r[2].v),
                               Complex(r[1].v, Neg(r[2].v))>>)

\* roots = (-b / a2,)
SingleQuadratic(c, r) ==
    IF r.err # "none" THEN Failed(r.err)
    ELSE ReturnQuadratic(c, <<Real(r.v)>>)

RootsQuadraticReal(c, a2, d) ==
    IF d.err # "none" THEN Failed(d.err)
    ELSE IF d.v.n < 0 THEN Failed("ValueError")
    ELSE IF d.v.n = 0
         THEN SingleQuadratic(c, DivOf(Ok(Neg(c["b"])), a2))
    ELSE PairQuadratic(c, d.v,
             TwoRoots(c["b"], a2.v, d.v, SqrtFloat(Abs(d.v.n), d.v.d)))

\* if b24ac == 0: ... else: ...
RootsQuadratic(c, a2, d) ==
    IF d.err # "none" THEN Failed(d.err)
    ELSE IF d.v.n = 0
         THEN SingleQuadratic(c, DivOf(Ok(Neg(c["b"])), a2))
    ELSE PairQuadratic(c, d.v,
             TwoRoots(c["b"], a2.v, d.v, SqrtFloat(Abs(d.v.n), d.v.d)))

\* cy = c - y; a2 = 2 * a; b24ac = b ** 2 - 4 * a * cy
SolveQuadratic(c) ==
    RootsQuadratic(c, Mul(PyInt(2), c["a"]),
        SubOf(Mul(c["b"], c["b"]),
              MulOf(Mul(PyInt(4), c["a"]), Sub2(c["c"], c["y"]))))

\* return steps: a str, whose last line shows abcd (kept under x)
ReturnAbcd(abcd) ==
    IF abcd.err # "none" THEN Failed(abcd.err)
    ELSE [err |-> "none",
          sol |-> [kind |-> "str", keys |-> {},
                   val |-> [k \in OutKeys |-> NoValue],
                   x |-> <<Real(abcd.v)>>, tuple |-> FALSE]]

\* bc = b * c; abc = a + bc; abcd = abc / d
SolveAbcd(c) ==
    ReturnAbcd(DivOf(AddOf(Ok(c["a"]), Mul(c["b"], c["c"])),
                     Ok(c["d"])))

\* the branch of evaluate for the shape e, from the coefficients on
Solve(e, cr) ==
    IF cr.err # "none" THEN Failed(cr.err)
    ELSE CASE e = "linear2" -> SolveLinear2(cr.c)
           [] e = "linear3" -> SolveLinear3(cr.c)
           [] e = "quadratic" -> SolveQuadratic(cr.c)
           [] e = "abcdformula" -> SolveAbcd(cr.c)

(***************************************************************************)
(* The step text evaluate builds, as the sequence of its lines; a line is  *)
(* a sequence of characters and of pieces of literal text.  "x" stands for *)
(* the italic x of the source, "^2" for the superscript two, "+-" for the  *)
(* plus-minus sign and "sqrt" for the root sign.                            *)
(***************************************************************************)
\* self.equation or f"..."
EquationOr(eq, line) == IF eq # None /\ eq # <<>> THEN eq ELSE line

\* abs(b)
AbsOf(v) == [n |-> Abs(v.n), d |-> v.d, f |-> v.f, nz |-> FALSE]

\* f'{m}x = {y} - {b}' if b > 0 else f'{m}x = {y} + {abs(b)}' if b < 0
\* else f'{m}x = {y}'
IsolateLine(m, y, b) ==
    IF b.n > 0 THEN Str(m) \o <<"x", " = ">> \o Str(y) \o <<" - ">> \o Str(b)
    ELSE IF b.n < 0
         THEN Str(m) \o <<"x", " = ">> \o Str(y) \o <<" + ">> \o Str(AbsOf(b))
    ELSE Str(m) \o <<"x", " = ">> \o Str(y)

\* the lines of linear2 from mx and x on
Linear2Lines(eq, c, mx, x) ==
    << EquationOr(eq, Str(c["y"]) \o <<" = ">> \o Str(c["m"]) \o <<"x", " + ">>
                       \o Str(c["b"])),
       IsolateLine(c["m"], c["y"], c["b"]),
       <<"x", " = ">> \o Str(mx) \o <<" / ">> \o Str(c["m"]),
       <<"x", " = ">> \o Str(x) >>

StepsLinear2(eq, c) ==
    Linear2Lines(eq, c, Sub2(c["y"], c["b"]).v,
                 DivOf(Sub2(c["y"], c["b"]), Ok(c["m"])).v)

\* the lines of linear3 from ab, cd, xab and x on
Linear3Lines(eq, c, ab, cd, xab, x) ==
    << EquationOr(eq, Str(c["y"]) \o <<" = ", "x", "(">> \o Str(c["a"])
                       \o <<" + ">> \o Str(c["b"]) \o <<")", " / ", "(">>
                       \o Str(c["c"]) \o <<" + ">> \o Str(c["d"]) \o <<")">>),
       Str(c["y"]) \o <<" = ">> \o Str(ab) \o <<"x", " / ", "(">> \o Str(cd)
           \o <<")">>,
       Str(ab) \o <<"x", " = ">> \o Str(c["y"]) \o <<" * ">> \o Str(cd),
       Str(ab) \o <<"x", " = ">> \o Str(xab),
       <<"x", " = ">> \o Str(xab) \o <<" / ">> \o Str(ab),
       <<"x", " = ">> \o Str(x) >>

Linear3Mid(eq, c, ab, cd, xab) ==
    Linear3Lines(eq, c, ab.v, cd.v, xab.v, DivOf(xab, ab).v)

StepsLinear3(eq, c) ==
    Linear3Mid(eq, c, Add(c["a"], c["b"]), Add(c["c"], c["d"]),
               MulOf(Ok(c["y"]), Add(c["c"], c["d"])))

\* the lines of abcdformula from bc, abc and abcd on
AbcdLines(eq, c, bc, abc, abcd) ==
    << <<"= ">> \o EquationOr(eq, <<"(">> \o Str(c["a"]) \o <<" + ">>
                       \o Str(c["b"]) \o <<" * ">> \o Str(c["c"])
                       \o <<")", " / ">> \o Str(c["d"])),
       <<"= ">> \o Str(c["a"]) \o <<" + ">> \o Str(bc),
       <<"= ">> \o Str(abc) \o <<" / ">> \o Str(c["d"]),
       <<"= ">> \o Str(abcd) >>

AbcdMid(eq, c, bc, abc) ==
    AbcdLines(eq, c, bc.v, abc.v, DivOf(abc, Ok(c["d"])).v)

StepsAbcd(eq, c) ==
    AbcdMid(eq, c, Mul(c["b"], c["c"]), AddOf(Ok(c["a"]), Mul(c["b"], c["c"])))

\* a part of a complex number in str(): repr of the float without '.0'
ShortStr(v) ==
    IF v.d = 1
    THEN (IF IsNeg(v) THEN <<"-">> ELSE <<>>) \o NatStr(Abs(v.n))
    ELSE FloatStr(v)

\* str(complex(re, im))
ComplexStr(re, im) ==
    IF re.n = 0 /\ ~re.nz THEN ShortStr(im) \o <<"j">>
    ELSE <<"(">> \o ShortStr(re) \o (IF IsNeg(im) THEN <<>> ELSE <<"+">>)
             \o ShortStr(im) \o <<"j", ")">>

\* str() of a root
RootStr(r) == IF r.cx THEN ComplexStr(r.re, r.im) ELSE Str(r.re)

\* str(sqrtv), str(bplus), str(bminus) for the root s of |b24ac|
SqrtText(dv, s) ==
    IF dv.n > 0 THEN Str(s) ELSE ComplexStr(PyFloat(0, 1), s)

PlusText(dv, nb, s) ==
    IF dv.n > 0 THEN Str(Add(nb, s).v)
    ELSE ComplexStr(Add(nb, PyFloat(0, 1)).v, s)

MinusText(dv, nb, s) ==
    IF dv.n > 0 THEN Str(Sub2(nb, s).v)
    ELSE ComplexStr(Sub2(nb, PyFloat(0, 1)).v, Neg(s))

\* the four lines every quadratic trace starts with
QuadraticHead(eq, c, cy, a2, dv) ==
    << EquationOr(eq, Str(c["y"]) \o <<" = ">> \o Str(c["a"]) \o <<"x", "^2", " + ">>
                       \o Str(c["b"]) \o <<"x", " + ">> \o Str(c["c"])),
       <<"0", " = ">> \o Str(c["a"]) \o <<"x", "^2", " + ">> \o Str(c["b"])
           \o <<"x", " + ">> \o Str(cy),
       <<"x", " = ", "(">> \o Str(Neg(c["b"])) \o <<" +- ", "sqrt", "(">>
           \o Str(c["b"]) \o <<"^2", " - ", "4", " * ">> \o Str(c["a"])
           \o <<" * ">> \o Str(c["c"]) \o <<")", ")", " / ", "(", "2", " * ">>
           \o Str(c["a"]) \o <<")">>,
       <<"x", " = ", "(">> \o Str(Neg(c["b"])) \o <<" +- ", "sqrt">> \o Str(dv)
           \o <<")", " / ">> \o Str(a2) >>

\* if b24ac == 0: the two f-strings follow each other without a newline
SingleRootLines(nb, a2, x) ==
    << <<"x", " = ">> \o Str(nb) \o <<" / ">> \o Str(a2)
           \o <<"x", " = ">> \o RootStr(x[1]) >>

\* else: the nine lines of the two roots
TwoRootLines(nb, a2, st, bp, bm, x) ==
    << <<"x", " = ", "(">> \o Str(nb) \o <<" +- ">> \o st \o <<")", " / ">>
           \o Str(a2),
       <<"Positive root:">>,
       <<"x", " = ", "(">> \o Str(nb) \o <<" + ">> \o st \o <<")", " / ">>
           \o Str(a2),
       <<"x", " = ">> \o bp \o <<" / ">> \o Str(a2),
       <<"x", " = ">> \o RootStr(x[1]),
       <<"Negative root:">>,
       <<"x", " = ", "(">> \o Str(nb) \o <<" - ">> \o st \o <<")", " / ">>
           \o Str(a2),
       <<"x", " = ">> \o bm \o <<" / ">> \o Str(a2),
       <<"x", " = ">> \o RootStr(x[2]) >>

QuadraticTail(nb, a2, dv, s, x) ==
    IF dv.n = 0 THEN SingleRootLines(nb, a2, x)
    ELSE TwoRootLines(nb, a2, SqrtText(dv, s), PlusText(dv, nb, s),
                      MinusText(dv, nb, s), x)

QuadraticLines(eq, c, cy, a2, dv, x) ==
    QuadraticHead(eq, c, cy, a2, dv) \o
    QuadraticTail(Neg(c["b"]), a2, dv, SqrtFloat(Abs(dv.n), dv.d).v, x)

StepsQuadratic(eq, c, x) ==
    QuadraticLines(eq, c, Sub2(c["c"], c["y"]).v, Mul(PyInt(2), c["a"]).v,
        SubOf(Mul(c["b"], c["b"]),
              MulOf(Mul(PyInt(4), c["a"]), Sub2(c["c"], c["y"]))).v, x)

\* the text evaluate returns under 'steps' (or as its value) with sol
Steps(e, eq, c, sol) ==
    CASE e = "linear2" -> StepsLinear2(eq, c)
      [] e = "linear3" -> StepsLinear3(eq, c)
      [] e = "quadratic" -> StepsQuadratic(eq, c, sol.x)
      [] e = "abcdformula" -> StepsAbcd(eq, c)

(***************************************************************************)
(* Inputs of the Calculator: every string over Alphabet of at most MaxLen  *)
(* characters, the expressions a+b*c over a few unsigned literals, and     *)
(* some longer expressions.                                                *)
(***************************************************************************)
UIntLits == {<<"0">>, <<"2">>, <<"3">>, <<"4">>, <<"1", "0">>}

ABCInputs == {a \o <<"+">> \o b \o <<"*">> \o c : a, b, c \in UIntLits}

Samples ==
    { <<"1", "0", "/", "0">>,
      <<"4", "/", "2", "/", "0">>,
      <<"8", "/", "2", "/", "2">>,
      <<"4", "/", "2", "*", "3">>,
      <<"5", "/", "2">>,
      <<"2", "-", "5">>,
      <<"1", "/", "8">>,
      <<"1", "/", "3">>,
      <<"-", "0", ".", "5", "*", "0">>,
      <<"1", "6", "/", "4", "/", "2", "/", "2">>,
      <<"1", "0", "-", "2", "-", "3", "-", "4">>,
      <<"1", "+", "2", "+", "3", "+", "4">>,
      <<"2", "*", "+", "-", "3", "+", "5">>,
      <<"2", "*", "-", "+", "3", "-", "1">>,
      <<"2", "*", "-", "+", "3", "-", "1", "+", "5">>,
      <<"2", "/", "-", "+", "3", "*", "1", "*", "1">> }

CalcInputs == Strings(MaxLen) \cup ABCInputs \cup Samples

(***************************************************************************)
(* Inputs of the EquationSolver: the keyword bags whose names are the      *)
(* variables of the shape, with one name less or with one name more, over  *)
(* a grid of values, some further bags, and equation texts built from the  *)
(* four formats.                                                           *)
(***************************************************************************)
MaxVal == 1

GridVals == -MaxVal..MaxVal

Bag(K, f) ==
    [keys |-> K, val |-> [k \in AllKeys |-> IF k \in K THEN f[k] ELSE 0]]

EmptyBag == Bag({}, [k \in AllKeys |-> 0])

KeySets(e) ==
    {{}, {"z"}} \cup
    {K \in SUBSET AllKeys :
        \/ K = EtypeVars(e)
        \/ \E k \in AllKeys : K = EtypeVars(e) \ {k} \/ K = EtypeVars(e) \cup {k}}

GridBags(e) == UNION {{Bag(K, f) : f \in [K -> GridVals]} : K \in KeySets(e)}

SampleBags(e) ==
    CASE e = "linear2" ->
           {Bag({"y", "m", "b"}, [y |-> 10, m |-> 2, b |-> 4]),
            Bag({"y", "m", "b"}, [y |-> 3, m |-> 2, b |-> -2])}
      [] e = "linear3" ->
           {Bag({"y", "a", "b", "c", "d"},
                [y |-> 6, a |-> 1, b |-> 2, c |-> 3, d |-> 1])}
      [] e = "quadratic" ->
           {Bag({"y", "a", "b", "c"}, [y |-> 0, a |-> 1, b |-> -3, c |-> 2]),
            Bag({"y", "a", "b", "c"}, [y |-> 0, a |-> 1, b |-> 2, c |-> 5])}
      [] e = "abcdformula" ->
           {Bag({"a", "b", "c", "d"}, [a |-> 1, b |-> 2, c |-> 3, d |-> 7]),
            Bag({"a", "b", "c", "d"}, [a |-> 1, b |-> 1, c |-> 3, d |-> 2])}

Bags(e) == GridBags(e) \cup SampleBags(e)

EqLits == {<<"0">>, <<"1">>, <<"2">>}
EqOps == {<<"+">>, <<"-">>}

Linear2Eqs ==
    {y \o <<"=">> \o m \o <<"x">> \o op \o b :
        y \in EqLits, m \in EqLits, b \in EqLits, op \in EqOps}

Linear3Eqs ==
    {<<"2", "=", "x", "(">> \o a \o o1 \o b \o <<")", "/", "(">>
        \o c \o o2 \o d \o <<")">> :
        a \in {<<"0">>, <<"1">>}, b \in {<<"0">>, <<"1">>},
        c \in {<<"0">>, <<"1">>}, d \in {<<"0">>, <<"1">>},
        o1 \in EqOps, o2 \in EqOps}

QuadraticEqs ==
    {<<"0", "=">> \o a \o <<"x", "^", "2">> \o o1 \o b \o <<"x">> \o o2 \o c :
        a \in {<<"0">>, <<"1">>}, b \in {<<"0">>, <<"2">>, <<"3">>},
        c \in {<<"0">>, <<"1">>, <<"2">>}, o1 \in EqOps, o2 \in EqOps}

AbcdEqs ==
    {<<"(">> \o a \o op \o b \o <<"*">> \o c \o <<")", "/">> \o d :
        a \in {<<"1">>, <<"2">>}, b \in {<<"1">>, <<"2">>},
        c \in {<<"1">>, <<"2">>}, d \in EqLits, op \in EqOps}

OtherEqs ==
    { <<>>,
      <<"x">>,
      <<"1", "0", "=", "2", "x">>,
      <<"1", "0", "=", "2", "x", "+", "4">>,
      <<"1", "0", "=", "2", "*", "x", "+", "4">>,
      <<"1", "0", "=", "2", "x", "+", "4", "+", "5">>,
      <<"-", "1", "0", "=", "-", "2", "x", "+", "-", "4">>,
      <<"2", ".", "5", "=", "0", ".", "5", "x", "+", "1">>,
      <<"2", "=", "x", "(", "1", "+", "1", ")", "/", "(", "1", "+", "1">>,
      <<"0", "=", "x", "^", "2", "-", "3", "x", "+", "2">>,
      <<"(", "1", "+", "2", "*", "3", ")", "/", "7">> }

Equations ==
    {None} \cup Linear2Eqs \cup Linear3Eqs \cup QuadraticEqs \cup AbcdEqs
           \cup OtherEqs

\* the equation arguments tried together with a bag that is not empty
BagEquations ==
    {None, <<>>, <<"x">>, <<"1", "0", "=", "2", "x", "+", "4">>}

(***************************************************************************)
(* State.                                                                  *)
(***************************************************************************)
VARIABLES
    input,        \* Calculator.__init__: the expression the object was made with
    expression,   \* Calculator.expression
    opi,          \* __str__: index in operators of the for loop's op
    pc,           \* __str__: "for", "recur", "done", "raised", "inexact"
    err,          \* the exception __str__ ends with, "none" otherwise
    etype,        \* EquationSolver.etype
    equation,     \* EquationSolver.equation (None when not given)
    variables,    \* EquationSolver.variables, the keyword bag
    spc,          \* "new", "constructed", "returned", "raised", "inexact"
    serr,         \* the exception __init__ or evaluate ends with
    solution,     \* what evaluate returned
    steps,        \* the lines of the step text evaluate returned
    vtext,        \* CalculatorView.expression / ManualModeView.equation
    display,      \* the content of the embed of the view's message
    pressed,      \* the label of the button of the last callback
    response,     \* what the last callback answered the interaction with
    escaped,      \* the exception that left the last callback, or "none"
    calculator,   \* the module the view takes Calculator from
    equation_vars,\* EquationView.equation_vars: the text stored for each name
    latex_eq,     \* EquationView.latex_eq
    disabled,     \* the labels of the disabled buttons of the EquationView
    modals        \* the number of VarInput modals open for each variable,
                  \* and under "spent" the number of those opened and of
                  \* the renderings failed so far

calcVars == <<input, expression, opi, pc, err>>
solverVars == <<etype, equation, variables, spc, serr, solution, steps>>
formVars == <<equation_vars, latex_eq, disabled, modals>>
viewVars == <<vtext, display, pressed, response, escaped, calculator, formVars>>
vars == <<input, expression, opi, pc, err,
          etype, equation, variables, spc, serr, solution, steps,
          vtext, display, pressed, response, escaped, calculator,
          equation_vars, latex_eq, disabled, modals>>

\* no EquationSolver in the runs of the Calculator, and conversely
SolverIdle ==
    /\ etype = "linear2"
    /\ equation = None
    /\ variables = EmptyBag
    /\ spc = "idle"
    /\ serr = "none"
    /\ solution = NoSolution
    /\ steps = <<>>

\* no EquationView
FormIdle ==
    /\ equation_vars = <<>>
    /\ latex_eq = <<>>
    /\ disabled = {}
    /\ modals = <<>>

\* no view in the runs of the Calculator and of the EquationSolver
ViewIdle ==
    /\ FormIdle
    /\ vtext = <<>>
    /\ display = <<>>
    /\ pressed = "none"
    /\ response = "idle"
    /\ escaped = "none"
    /\ calculator = "none"

CalcIdle ==
    /\ input = <<>>
    /\ expression = <<>>
    /\ opi = 1
    /\ pc = "idle"
    /\ err = "none"

(***************************************************************************)
(* Calculator(expression) followed by str(): __init__ and __str__.         *)
(***************************************************************************)
InitCalc ==
    /\ input \in CalcInputs
    /\ expression = input
    /\ opi = 1
    /\ pc = "for"
    /\ err = "none"
    /\ SolverIdle
    /\ ViewIdle

\* for op in self.operators: if re.search(...): recur(op)
ForOp ==
    /\ pc = "for"
    /\ opi <= Len(operators)
    /\ IF HasMatch(expression, operators[opi], ExtSigns)
       THEN pc' = "recur" /\ opi' = opi
       ELSE pc' = "for" /\ opi' = opi + 1
    /\ UNCHANGED <<input, expression, err>>
    /\ UNCHANGED solverVars
    /\ UNCHANGED viewVars

\* the rest of recur(op) once sub_regex has ended with r
AfterSub(r) ==
    IF r.err # "none"
    THEN /\ pc' = IF r.err = "Inexact" THEN "inexact" ELSE "raised"
         /\ err' = r.err
         /\ UNCHANGED <<expression, opi>>
    ELSE /\ expression' = r.out
         /\ err' = err
         /\ IF RecurAgain(r.out, operators[opi], ExtSigns)
            THEN pc' = "recur" /\ opi' = opi
            ELSE pc' = "for" /\ opi' = opi + 1

\* recur(op): self.sub_regex(op); if re.search(...): recur(op)
Recur ==
    /\ pc = "recur"
    /\ AfterSub(sub_regex(expression, operators[opi], ExtSigns))
    /\ UNCHANGED input
    /\ UNCHANGED solverVars
    /\ UNCHANGED viewVars

\* return self.expression
Return ==
    /\ pc = "for"
    /\ opi = Len(operators) + 1
    /\ pc' = "done"
    /\ UNCHANGED <<input, expression, opi, err>>
    /\ UNCHANGED solverVars
    /\ UNCHANGED viewVars

NextCalc == ForOp \/ Recur \/ Return

SpecCalc == InitCalc /\ [][NextCalc]_vars

(***************************************************************************)
(* EquationSolver(equation, etype=etype, **variables) followed by          *)
(* evaluate().                                                             *)
(***************************************************************************)
InitSolver ==
    /\ etype \in Etypes
    /\ variables \in Bags(etype)
    /\ equation \in (IF variables.keys = {} THEN Equations ELSE BagEquations)
    /\ spc = "new"
    /\ serr = "none"
    /\ solution = NoSolution
    /\ steps = <<>>
    /\ CalcIdle
    /\ ViewIdle

HasInputXor(eq, bag) == (eq # None /\ eq # <<>>) # (bag.keys # {})

\* self.equation or self.variables
HasInput(eq, bag) == (eq # None /\ eq # <<>>) \/ bag.keys # {}

\* the exception __init__ raises, "none" when it returns
InitError(eq, bag) ==
    IF \E k \in bag.keys : k \notin VALID_VARS THEN "TypeError"
    ELSE IF ~HasInput(eq, bag) THEN "AssertionError"
    ELSE "none"

\* EquationSolver.__init__
Construct ==
    /\ spc = "new"
    /\ serr' = InitError(equation, variables)
    /\ spc' = IF InitError(equation, variables) = "none" THEN "constructed"
              ELSE "raised"
    /\ UNCHANGED <<etype, equation, variables, solution, steps>>
    /\ UNCHANGED calcVars
    /\ UNCHANGED viewVars

\* evaluate ends with r: it returns r.sol or raises r.err
Finish(r) ==
    /\ serr' = r.err
    /\ solution' = r.sol
    /\ steps' = IF r.err = "none"
                THEN Steps(etype, equation,
                           Coeffs(etype, equation, variables).c, r.sol)
                ELSE <<>>
    /\ spc' = CASE r.err = "none" -> "returned"
                [] r.err = "Inexact" -> "inexact"
                [] OTHER -> "raised"

\* EquationSolver.evaluate on the branch of self.etype
Evaluate ==
    /\ spc = "constructed"
    /\ Finish(Solve(etype, Coeffs(etype, equation, variables)))
    /\ UNCHANGED <<etype, equation, variables>>
    /\ UNCHANGED calcVars
    /\ UNCHANGED viewVars

\* if self.etype is Etype.linear2
EvaluateLinear2 ==
    /\ etype = "linear2"
    /\ Evaluate

\* elif self.etype is Etype.linear3
EvaluateLinear3 ==
    /\ etype = "linear3"
    /\ Evaluate

\* elif self.etype is Etype.quadratic
EvaluateQuadratic ==
    /\ etype = "quadratic"
    /\ Evaluate

\* elif self.etype is Etype.abcdformula
EvaluateAbcd ==
    /\ etype = "abcdformula"
    /\ Evaluate

NextSolver ==
    \/ Construct
    \/ EvaluateLinear2
    \/ EvaluateLinear3
    \/ EvaluateQuadratic
    \/ EvaluateAbcd

SpecSolver == InitSolver /\ [][NextSolver]_vars

(***************************************************************************)
(* The views: CalculatorView with its CalcButtons and ManualModeView with  *)
(* its ManualButtons.  One step is one callback.  The calls of the Discord *)
(* API are taken to succeed.  The texts typed are the beginnings of the    *)
(* inputs of the Calculator, respectively of the equations of the solver.  *)
(***************************************************************************)
ZeroWidthSpace == "u200b"

Spaces(k) == [i \in 1..k |-> " "]

\* content = content or '\u200b'; content += ' ' * (40 - len(content))
Padded(content) ==
    IF content = <<>> THEN <<ZeroWidthSpace>> \o Spaces(39)
    ELSE content \o Spaces(IF Len(content) < 40 THEN 40 - Len(content) ELSE 0)

\* the embed the command sends with the view
FirstDisplay == <<ZeroWidthSpace>> \o Spaces(40) \o <<ZeroWidthSpace>>

ErrorText == <<"E", "R", "R", "O", "R">>
InvalidText == <<"Invalid Equation">>

\* a handler that catches the division by zero alone
IsExceptionZeroOnly(e) == e = "ZeroDivisionError"

\* the classes 'except Exception' catches, among those the code can raise
IsException(e) ==
    e \in {"ZeroDivisionError", "ValueError", "TypeError", "NameError",
           "AssertionError", "RecursionError"}

IsPrefix(p, t) == Len(p) <= Len(t) /\ SubSeq(t, 1, Len(p)) = p

\* the labels of the CalcButtons that add a term, and SYMBOL_CONV
CalcLabels == Digits \cup {".", "+", "-", "times", "divide"}

CalcTerm(label) ==
    CASE label = "times" -> <<"*">>
      [] label = "divide" -> <<"/">>
      [] OTHER -> <<label>>

\* the view is there and its last callback has returned
ViewOpen == response \notin {"idle", "delete", "solution", "inexact"} /\ escaped = "none"

\* bot/ext/calculator.py and bot/calculator.py each hold the view
Calculators == {"ext", "old"}

SignsOf(module) == IF module = "old" THEN OldSigns ELSE ExtSigns

InitCalcView ==
    /\ calculator \in Calculators
    /\ FormIdle
    /\ vtext = <<>>
    /\ display = FirstDisplay
    /\ pressed = "none"
    /\ response = "sent"
    /\ escaped = "none"
    /\ CalcIdle
    /\ SolverIdle

\* self.edit(interaction): the message shows the stored text
Edited(text) ==
    /\ vtext' = text
    /\ display' = Padded(text)
    /\ response' = "edit"
    /\ escaped' = "none"

\* else: self.view.expression += term
CalcPressTerm ==
    /\ ViewOpen
    /\ \E label \in CalcLabels :
          /\ \E t \in CalcInputs : IsPrefix(vtext \o CalcTerm(label), t)
          /\ pressed' = label
          /\ Edited(vtext \o CalcTerm(label))
    /\ UNCHANGED <<calcVars, solverVars, calculator, formVars>>

\* the '=' branch once str(Calculator(self.view.expression)) ended with r
CalcEqualsEnds(r) ==
    IF r.err = "none" THEN Edited(r.out)
    ELSE IF r.err = "Inexact"
         THEN /\ response' = "inexact"
              /\ UNCHANGED <<vtext, display, escaped>>
    ELSE IF IsException(r.err)
         THEN /\ display' = Padded(ErrorText)
              /\ response' = "edit"
              /\ UNCHANGED <<vtext, escaped>>
    ELSE /\ escaped' = r.err
         /\ UNCHANGED <<vtext, display, response>>

\* if self.label == '='
CalcPressEquals ==
    /\ ViewOpen
    /\ pressed' = "="
    /\ CalcEqualsEnds(CalcStr(vtext, SignsOf(calculator)))
    /\ UNCHANGED <<calcVars, solverVars, calculator, formVars>>

\* elif self.label == 'Help'
CalcPressHelp ==
    /\ ViewOpen
    /\ pressed' = "Help"
    /\ response' = "help"
    /\ UNCHANGED <<vtext, display, escaped>>
    /\ UNCHANGED <<calcVars, solverVars, calculator, formVars>>

\* elif self.label == 'C'
CalcPressC ==
    /\ ViewOpen
    /\ pressed' = "C"
    /\ Edited(<<>>)
    /\ UNCHANGED <<calcVars, solverVars, calculator, formVars>>

\* elif self.label == the backspace sign: expression[:-1]
CalcPressBack ==
    /\ ViewOpen
    /\ pressed' = "Back"
    /\ Edited(IF vtext = <<>> THEN <<>> ELSE SubSeq(vtext, 1, Len(vtext) - 1))
    /\ UNCHANGED <<calcVars, solverVars, calculator, formVars>>

\* elif self.label == 'Close'
CalcPressClose ==
    /\ ViewOpen
    /\ pressed' = "Close"
    /\ response' = "delete"
    /\ UNCHANGED <<vtext, display, escaped>>
    /\ UNCHANGED <<calcVars, solverVars, calculator, formVars>>

NextCalcView ==
    \/ CalcPressTerm
    \/ CalcPressEquals
    \/ CalcPressHelp
    \/ CalcPressC
    \/ CalcPressBack
    \/ CalcPressClose

SpecCalcView == InitCalcView /\ [][NextCalcView]_vars

\* the labels of the ManualButtons of a shape that add a term
\* (Etype.<shape>.value['buttons']), the signs named in ASCII
ManualLabels(e) ==
    Digits \cup {".", "+", "-", "=", "x"} \cup
    CASE e = "linear2" -> {}
      [] e = "linear3" -> {"divide", "(", ")"}
      [] e = "abcdformula" -> {"times", "divide", "(", ")"}
      [] e = "quadratic" -> {"squared"}

\* ManualButton.SYMBOL_CONV
ManualTerm(label) ==
    CASE label = "times" -> <<"*">>
      [] label = "divide" -> <<"/">>
      [] label = "squared" -> <<"^", "2">>
      [] OTHER -> <<label>>

\* the texts typed in manual mode
ManualTexts == Equations \ {None}

InitManualView ==
    /\ etype \in Etypes
    /\ FormIdle
    /\ vtext = <<>>
    /\ display = FirstDisplay
    /\ pressed = "none"
    /\ response = "sent"
    /\ escaped = "none"
    /\ calculator = "none"
    /\ equation = None
    /\ variables = EmptyBag
    /\ spc = "idle"
    /\ serr = "none"
    /\ solution = NoSolution
    /\ steps = <<>>
    /\ CalcIdle

manualFixed == <<calcVars, solverVars, calculator, formVars>>

\* else: self.view.equation += term
ManualPressTerm ==
    /\ ViewOpen
    /\ \E label \in ManualLabels(etype) :
          /\ \E t \in ManualTexts : IsPrefix(vtext \o ManualTerm(label), t)
          /\ pressed' = label
          /\ Edited(vtext \o ManualTerm(label))
    /\ UNCHANGED manualFixed

\* EquationSolver(self.view.equation, etype=self.view.etype).evaluate()
ManualSolve(e, eq) ==
    IF InitError(eq, EmptyBag) # "none" THEN Failed(InitError(eq, EmptyBag))
    ELSE Solve(e, Coeffs(e, eq, EmptyBag))

\* the names bound in the module of ManualButton: the star import of
\* bot.utils brings the names of its __all__
InvalidEquationBound == FALSE

\* the except clauses of the 'Enter' branch, for the exception e raised in
\* its try body: the expression of the first clause is evaluated first
ManualExcept(e) ==
    IF ~InvalidEquationBound
    THEN /\ escaped' = "NameError"
         /\ UNCHANGED <<vtext, display, response>>
    ELSE IF e = "InvalidEquation"
    THEN /\ display' = Padded(InvalidText)
         /\ response' = "edit"
         /\ UNCHANGED <<vtext, escaped>>
    ELSE IF IsException(e)
    THEN /\ response' = "oops"
         /\ UNCHANGED <<vtext, display, escaped>>
    ELSE /\ escaped' = e
         /\ UNCHANGED <<vtext, display, response>>

\* the 'Enter' branch once evaluate ended with r: the solution replaces
\* the message and the view is removed (view=None)
ManualEnterEnds(r) ==
    IF r.err = "none"
    THEN /\ display' = Steps(etype, vtext, Coeffs(etype, vtext, EmptyBag).c, r.sol)
         /\ response' = "solution"
         /\ UNCHANGED <<vtext, escaped>>
    ELSE IF r.err = "Inexact"
    THEN /\ response' = "inexact"
         /\ UNCHANGED <<vtext, display, escaped>>
    ELSE ManualExcept(r.err)

\* if self.label == 'Enter'
ManualPressEnter ==
    /\ ViewOpen
    /\ pressed' = "Enter"
    /\ ManualEnterEnds(ManualSolve(etype, vtext))
    /\ UNCHANGED manualFixed

\* elif self.label == the information sign
ManualPressInfo ==
    /\ ViewOpen
    /\ pressed' = "Info"
    /\ response' = "help"
    /\ UNCHANGED <<vtext, display, escaped>>
    /\ UNCHANGED manualFixed

\* elif self.label == 'C'
ManualPressC ==
    /\ ViewOpen
    /\ pressed' = "C"
    /\ Edited(<<>>)
    /\ UNCHANGED manualFixed

\* elif self.label == the backspace sign: equation[:-1]
ManualPressBack ==
    /\ ViewOpen
    /\ pressed' = "Back"
    /\ Edited(IF vtext = <<>> THEN <<>> ELSE SubSeq(vtext, 1, Len(vtext) - 1))
    /\ UNCHANGED manualFixed

\* elif self.label == 'Close'
ManualPressClose ==
    /\ ViewOpen
    /\ pressed' = "Close"
    /\ response' = "delete"
    /\ UNCHANGED <<vtext, display, escaped>>
    /\ UNCHANGED manualFixed

NextManualView ==
    \/ ManualPressTerm
    \/ ManualPressEnter
    \/ ManualPressInfo
    \/ ManualPressC
    \/ ManualPressBack
    \/ ManualPressClose

SpecManualView == InitManualView /\ [][NextManualView]_vars

(***************************************************************************)
(* The EquationView with its VarButtons and the VarInput modals they open. *)
(* One step is one callback: VarButton.callback or VarInput.on_submit.     *)
(* A disabled button is not pressed.  The texts submitted are a few        *)
(* literals and one text that is no number; rendering the equation may     *)
(* fail.  Once the message is deleted or edited with another view or with  *)
(* view=None, the EquationView is gone and no callback of it is followed.  *)
(***************************************************************************)
\* the modals opened and the renderings failed in one run: one modal for
\* each variable and MaxExtra more of either
MaxExtra == 1

Budget(e) == Cardinality(EtypeVars(e)) + MaxExtra

ValueTexts == {<<"0">>, <<"2">>, <<"x">>}

\* Etype.<shape>.value['latex'], with \frac and \times as one token each:
\* on_submit takes them out of the string before it replaces the variable
Latex(e) ==
    CASE e = "linear2" -> <<"y", "=", "m", "x", "+", "b">>
      [] e = "linear3" ->
           <<"y", "=", "frac", "{", "x", "(", "a", "+", "b", ")", "}",
             "{", "c", "+", "d", "}">>
      [] e = "abcdformula" ->
           <<"frac", "{", "a", "+", "b", "times", "%", "2", "0", "c", "}",
             "{", "d", "}">>
      [] e = "quadratic" ->
           <<"y", "=", "a", "x", "^", "2", "+", "b", "x", "+", "c">>

RECURSIVE Replace(_, _, _)
\* remove_latex.replace(self.variable, value)
Replace(t, variable, value) ==
    IF t = <<>> THEN <<>>
    ELSE (IF Head(t) = variable THEN value ELSE <<Head(t)>>)
             \o Replace(Tail(t), variable, value)

\* float(value) does not raise ValueError, for the texts of ValueTexts
FloatAccepts(value) == IsFloatLiteral(value)

\* the message still carries the EquationView
FormOpen == response \in {"sent", "modal", "edit", "message", "oops"}

\* EquationView.__init__
InitEquationView ==
    /\ etype \in Etypes
    /\ equation_vars = [k \in AllKeys |-> None]
    /\ latex_eq = Latex(etype)
    /\ disabled = {"Enter"}
    /\ modals = [k \in AllKeys \cup {"spent"} |-> 0]
    /\ pressed = <<"none">>
    /\ response = "sent"
    /\ escaped = "none"
    /\ vtext = <<>>
    /\ display = <<>>
    /\ calculator = "none"
    /\ equation = None
    /\ variables = EmptyBag
    /\ spc = "idle"
    /\ serr = "none"
    /\ solution = NoSolution
    /\ steps = <<>>
    /\ CalcIdle

formFixed == <<calcVars, solverVars, vtext, display, calculator>>

\* VarButton.callback, else: send_modal(VarInput(self.label, self))
PressVar ==
    /\ FormOpen
    /\ modals["spent"] < Budget(etype)
    /\ \E v \in EtypeVars(etype) \ disabled :
          /\ modals' = [modals EXCEPT ![v] = @ + 1, !["spent"] = @ + 1]
    /\ pressed' = <<"press">>
    /\ response' = "modal"
    /\ escaped' = "none"
    /\ UNCHANGED <<equation_vars, latex_eq, disabled>>
    /\ UNCHANGED formFixed

\* 'Enter' enabled as soon as one button of the first row is disabled
EnterEnabledAny(e, dis) ==
    IF EtypeVars(e) \cap dis # {} THEN dis \ {"Enter"} ELSE dis

\* if all(child.disabled for child in first_row):
\*     self.button.view.children[-1].disabled = False
EnterEnabled(e, dis) ==
    IF EtypeVars(e) \subseteq dis THEN dis \ {"Enter"} ELSE dis

\* VarInput.on_submit of a modal of the variable v with the text value;
\* rendered: render_latex returned an image, otherwise its retries ended
\* with RecursionError
\* (self.button.value, assigned first, is read nowhere)
Submitted(v, value, rendered) ==
    IF ~FloatAccepts(value)
    THEN /\ response' = "message"
         /\ escaped' = "none"
         /\ modals' = [modals EXCEPT ![v] = @ - 1]
         /\ UNCHANGED <<equation_vars, latex_eq, disabled>>
    ELSE /\ equation_vars' = [equation_vars EXCEPT ![v] = value]
         /\ latex_eq' = Replace(latex_eq, v, value)
         /\ IF rendered
            THEN /\ disabled' = EnterEnabled(etype, disabled \cup {v})
                 /\ response' = "edit"
                 /\ escaped' = "none"
                 /\ modals' = [modals EXCEPT ![v] = @ - 1]
            ELSE /\ modals["spent"] < Budget(etype)
                 /\ escaped' = "RecursionError"
                 /\ modals' = [modals EXCEPT ![v] = @ - 1, !["spent"] = @ + 1]
                 /\ UNCHANGED <<disabled, response>>

SubmitModal ==
    /\ FormOpen
    /\ \E v \in EtypeVars(etype), value \in ValueTexts, rendered \in BOOLEAN :
          /\ modals[v] > 0
          /\ pressed' = <<"submit", value>>
          /\ Submitted(v, value, rendered)
    /\ UNCHANGED formFixed

\* EquationSolver(etype=self.view.etype, **self.view.equation_vars)
\* .evaluate(): the bag holds the texts, evaluate takes num() of each
FormSolve(e, ev) ==
    IF \A k \in AllKeys : ev[k] = None THEN Failed("AssertionError")
    ELSE IF \E k \in EtypeVars(e) : ev[k] = None THEN Failed("TypeError")
    ELSE Solve(e, [err |-> "none",
                   c |-> [k \in AllKeys |-> IF ev[k] = None THEN NoValue
                                            ELSE num(ev[k])]])

\* the view of the message is no longer the EquationView
FormGone ==
    /\ equation_vars' = <<>>
    /\ latex_eq' = <<>>
    /\ disabled' = {}
    /\ modals' = <<>>

\* the 'Enter' branch once evaluate ended with r: edit_message(view=None)
\* with the solution, or a message
FormEnterEnds(r) ==
    /\ response' = CASE r.err = "none" -> "solution"
                     [] r.err = "Inexact" -> "inexact"
                     [] r.err = "ZeroDivisionError" -> "message"
                     [] OTHER -> "oops"
    /\ escaped' = IF r.err \in {"none", "Inexact"} \/ IsException(r.err)
                  THEN "none" ELSE r.err
    /\ IF r.err \in {"none", "Inexact"} THEN FormGone ELSE UNCHANGED formVars

\* VarButton.callback, elif self.label == 'Enter'
PressEnter ==
    /\ FormOpen
    /\ "Enter" \notin disabled
    /\ pressed' = <<"Enter">>
    /\ FormEnterEnds(FormSolve(etype, equation_vars))
    /\ UNCHANGED formFixed

\* VarButton.callback, if self.label == 'Cancel'
PressCancel ==
    /\ FormOpen
    /\ pressed' = <<"Cancel">>
    /\ response' = "delete"
    /\ escaped' = "none"
    /\ FormGone
    /\ UNCHANGED formFixed

\* VarButton.callback, elif self.label == 'manual mode'
PressManualMode ==
    /\ FormOpen
    /\ pressed' = <<"manual mode">>
    /\ response' = "manual"
    /\ escaped' = "none"
    /\ FormGone
    /\ UNCHANGED formFixed

NextEquationView ==
    \/ PressVar
    \/ SubmitModal
    \/ PressEnter
    \/ PressCancel
    \/ PressManualMode

SpecEquationView == InitEquationView /\ [][NextEquationView]_vars

(***************************************************************************)
(* Properties of the Calculator.                                           *)
(***************************************************************************)
Chars(s) == {s[i] : i \in 1..Len(s)}

\* s is one single number: the whole of s matches NUM_PAT
IsSingleNumber(s) == Len(s) > 0 /\ NumEnd(s, 1, ExtSigns) = Len(s)

\* C1: reducing 'a+b*c' with unsigned integer literals a, b, c does not
\* raise and returns the single number string of a+(b*c)
C1_ReduceABC ==
    \A a, b, c \in UIntLits :
        input = a \o <<"+">> \o b \o <<"*">> \o c =>
            /\ pc # "raised"
            /\ pc = "done" =>
                   expression = IntStr(num(a).n + num(b).n * num(c).n)

\* the for loop takes the operators in the order of `operators`
StepOrder == opi' \in {opi, opi + 1}

\* the loop leaves an operator only when no match of it remains
LeaveClean ==
    opi' = opi + 1 => ~Search(expression', operators[opi], ExtSigns)

\* no fold of an operator while a match of an earlier operator is present
NoEarlierMatch ==
    (pc = "recur" /\ expression' # expression) =>
        \A j \in 1..(opi - 1) : ~Search(expression, operators[j], ExtSigns)

\* C2 (as claimed): the operators are processed in the order / * - +, each
\* until no match of it remains, and a later operator is never folded
\* while a match of an earlier operator is still present
C2_FixedOrderNoEarlier == [][StepOrder /\ LeaveClean /\ NoEarlierMatch]_vars

\* C2 (amended): the operators are processed in the order / * - +, and the
\* loop moves to the next operator only when no match of the current one
\* remains
C2_FixedOrder == [][StepOrder /\ LeaveClean]_vars

\* '8/2/2' after its two passes of '/': '4.0/2', then '2.0'
C2_Witness ==
    /\ input = <<"8", "/", "2", "/", "2">>
    /\ expression = <<"2", ".", "0">>
    /\ pc = "for"
    /\ opi = 2

\* C3: a result the reducer has written shows no fractional part when its
\* value is an integer
C3_IntegerForm ==
    (pc = "done" /\ expression # input /\ IsFloatLiteral(expression)
                 /\ num(expression).d = 1)
        => "." \notin Chars(expression)

\* C4: reduce returns only a string that is one single number
C4_ReturnsNumber == pc = "done" => IsSingleNumber(expression)

\* the match of NUM/NUM at position i of s has a right operand equal to 0
ZeroDivisorAt(s, i) ==
    /\ MatchEnd(s, i, "/", ExtSigns) # 0
    /\ num(SubSeq(s, NumEnd(s, i, ExtSigns) + 2,
                  MatchEnd(s, i, "/", ExtSigns))).n = 0

RECURSIVE VisitsZeroDivisor(_, _)
\* one pass of re.sub for '/' from position i reaches a zero divisor
VisitsZeroDivisor(s, i) ==
    IF i > Len(s) THEN FALSE
    ELSE LET e == MatchEnd(s, i, "/", ExtSigns)
         IN  IF e = 0 THEN VisitsZeroDivisor(s, i + 1)
             ELSE ZeroDivisorAt(s, i) \/ VisitsZeroDivisor(s, e + 1)

\* C5: a pass of '/' that meets a zero right operand ends __str__ with
\* ZeroDivisionError and the expression untouched, and an input with a
\* division by a zero operand never yields a result
C5_ZeroDivisionPropagates ==
    /\ [](pc = "done" => \A i \in 1..Len(input) : ~ZeroDivisorAt(input, i))
    /\ [][(pc = "recur" /\ operators[opi] = "/"
                        /\ VisitsZeroDivisor(expression, 1))
            => (pc' = "raised" /\ err' = "ZeroDivisionError"
                               /\ expression' = expression)]_vars

\* '4/2/0': the second pass divides 2.0 by 0
C5_Witness ==
    /\ input = <<"4", "/", "2", "/", "0">>
    /\ expression = <<"2", ".", "0", "/", "0">>
    /\ pc = "raised"
    /\ err = "ZeroDivisionError"

(***************************************************************************)
(* Properties of the EquationSolver.                                       *)
(***************************************************************************)
EquationGiven == equation # None /\ equation # <<>>
BagGiven == variables.keys # {}

\* the coefficients evaluate is about to work with
Given == Coeffs(etype, equation, variables)

\* C6: for every shape, constructing the solver with a bag that holds a key
\* outside the shape's own variable set fails with the invalid-argument
\* error (TypeError) and nothing is solved, also when the key is one of
\* another shape's variables.
C6_ForeignKeyRejected ==
    [][(spc = "new" /\ \E k \in variables.keys : k \notin EtypeVars(etype))
         => (spc' = "raised" /\ serr' = "TypeError" /\ solution' = NoSolution)]_vars

\* C7: when the shape's variables are not all in the bag and the equation
\* is absent or does not match the shape's pattern, evaluate fails with
\* InvalidEquation and with no other error.
C7_InvalidEquation ==
    [][(/\ spc = "constructed"
        /\ ~FullBag(etype, variables)
        /\ (equation = None \/ ~re_match(etype, equation).ok))
         => (spc' = "raised" /\ serr' = "InvalidEquation")]_vars

\* a denominator of the shape's equation or of its solution is zero
ZeroDenominator(e, c) ==
    CASE e = "linear2" -> c["m"].n = 0
      [] e = "linear3" ->
           \/ Add(c["a"], c["b"]).err = "none" /\ Add(c["a"], c["b"]).v.n = 0
           \/ Add(c["c"], c["d"]).err = "none" /\ Add(c["c"], c["d"]).v.n = 0
      [] e = "quadratic" -> c["a"].n = 0
      [] e = "abcdformula" -> c["d"].n = 0

\* C8: evaluate fails with the division-by-zero error and returns no
\* solution whenever a denominator is zero: Linear2 with m = 0, Linear3
\* with a+b = 0 or c+d = 0, Quadratic with a = 0, ABCDFormula with d = 0.
C8_DivisionByZero ==
    [][(/\ spc = "constructed"
        /\ Given.err = "none"
        /\ ZeroDenominator(etype, Given.c)
        /\ spc' # "inexact")
         => (/\ spc' = "raised"
             /\ serr' = "ZeroDivisionError"
             /\ solution' = NoSolution)]_vars

\* C9 as stated: construction is rejected when equation and bag are both
\* empty and also when both are supplied.
C9_ExactlyOne ==
    [][(spc = "new" /\ (EquationGiven <=> BagGiven)) => spc' = "raised"]_vars

\* C9 amended: construction requires at least one of equation and bag to
\* be non-empty.  With both empty it fails with AssertionError; with a bag
\* of valid names, or with an equation and no bag, it succeeds, also when
\* both are supplied.
C9_AtLeastOne ==
    [][spc = "new" =>
         /\ (~EquationGiven /\ ~BagGiven)
              => (spc' = "raised" /\ serr' = "AssertionError")
         /\ ((EquationGiven \/ BagGiven) /\ variables.keys \subseteq VALID_VARS)
              => (spc' = "constructed" /\ serr' = "none")]_vars

\* the constructor has rejected EquationSolver('', etype=...)
C9_Witness ==
    /\ spc = "raised"
    /\ serr = "AssertionError"
    /\ equation = <<>>
    /\ variables.keys = {}

InputsRecord(V) ==
    /\ solution.kind = "dict"
    /\ solution.keys = V \cup {"x", "steps"}
    /\ solution.x # <<>>
    /\ \A k \in V : solution.val[k] = Given.c[k]

\* the record of Linear3: the line through the origin it reduces to
LineRecord(c) ==
    /\ solution.kind = "dict"
    /\ solution.keys = {"m", "b", "x", "y", "steps"}
    /\ Len(solution.x) = 1
    /\ solution.val["m"] = Add(c["a"], c["b"]).v
    /\ solution.val["b"] = PyInt(0)
    /\ solution.val["y"] = MulOf(Ok(c["y"]), Add(c["c"], c["d"])).v

Q(v) == Frac(v.n, v.d)
QInt(k) == Frac(k, 1)
QAdd(p, q) == Frac(p.n * q.d + q.n * p.d, p.d * q.d)
QSub(p, q) == Frac(p.n * q.d - q.n * p.d, p.d * q.d)
QMul(p, q) == Frac(p.n * q.n, p.d * q.d)
QDiv(p, q) == Frac(p.n * q.d, p.d * q.n)
QSqrt(p) == Frac(ISqrt(p.n), ISqrt(p.d))

\* the Python number v has the value of the fraction q
HasValue(v, q) == v.n * q.d = q.n * v.d

\* D = b^2 - 4a(c - y)
Disc(c) ==
    QSub(QMul(Q(c["b"]), Q(c["b"])),
         QMul(QMul(QInt(4), Q(c["a"])), QSub(Q(c["c"]), Q(c["y"]))))

\* (-b + sgn * sqrt(D)) / (2a)
FormulaRoot(c, sgn) ==
    QDiv(QAdd(QSub(QInt(0), Q(c["b"])), QMul(QInt(sgn), QSqrt(Disc(c)))),
         QMul(QInt(2), Q(c["a"])))

\* a*r^2 + b*r + c = y
SatisfiesQuadratic(c, r) ==
    QAdd(QAdd(QMul(Q(c["a"]), QMul(Q(r), Q(r))), QMul(Q(c["b"]), Q(r))),
         Q(c["c"])) = Q(c["y"])

RealRootIs(r, q) == ~r.cx /\ r.re.f /\ HasValue(r.re, q)

\* C11: Quadratic computes D = b^2 - 4a(c - y); it returns exactly one
\* root -b/(2a) when D = 0 and exactly the two real roots
\* ((-b + sqrt(D))/(2a), (-b - sqrt(D))/(2a)), in that order, when D > 0;
\* every returned root r satisfies a*r^2 + b*r + c = y.
C11_QuadraticRoots ==
    (spc = "returned" /\ etype = "quadratic" /\ Disc(Given.c).n >= 0) =>
        /\ solution.tuple
        /\ Disc(Given.c).n = 0 =>
              /\ Len(solution.x) = 1
              /\ RealRootIs(solution.x[1], FormulaRoot(Given.c, 0))
        /\ Disc(Given.c).n > 0 =>
              /\ Len(solution.x) = 2
              /\ RealRootIs(solution.x[1], FormulaRoot(Given.c, 1))
              /\ RealRootIs(solution.x[2], FormulaRoot(Given.c, -1))
        /\ \A i \in 1..Len(solution.x) :
              SatisfiesQuadratic(Given.c, solution.x[i].re)

\* evaluate has returned the roots (2.0, 1.0) of 0 = x^2 - 3x + 2
C11_Witness ==
    /\ spc = "returned"
    /\ etype = "quadratic"
    /\ variables.keys = {"y", "a", "b", "c"}
    /\ variables.val["a"] = 1 /\ variables.val["b"] = -3
    /\ variables.val["c"] = 2 /\ variables.val["y"] = 0
    /\ solution.x = <<Real(PyFloat(2, 1)), Real(PyFloat(1, 1))>>

\* sqrt(-D) / (2a)
FormulaImag(c) ==
    QDiv(QSqrt(QSub(QInt(0), Disc(c))), QMul(QInt(2), Q(c["a"])))

\* the complex root r is re + im*j
ComplexRootIs(r, re, im) ==
    r.cx /\ HasValue(r.re, re) /\ HasValue(r.im, im)

\* C12: Quadratic with a negative discriminant does not fail: the complex
\* square root is used, a pair of complex roots
\* -b/(2a) +- (sqrt(-D)/(2a))j is returned, and the step text is the one
\* with the 'Positive root:' and 'Negative root:' parts.
C12_ComplexRoots ==
    [][(/\ spc = "constructed"
        /\ etype = "quadratic"
        /\ Given.err = "none"
        /\ Disc(Given.c).n < 0
        /\ spc' # "inexact")
         => (/\ spc' = "returned"
             /\ serr' = "none"
             /\ solution'.tuple
             /\ Len(solution'.x) = 2
             /\ ComplexRootIs(solution'.x[1], FormulaRoot(Given.c, 0),
                               FormulaImag(Given.c))
             /\ ComplexRootIs(solution'.x[2], FormulaRoot(Given.c, 0),
                               QSub(QInt(0), FormulaImag(Given.c)))
             /\ Len(steps') = 13
             /\ steps'[6] = <<"Positive root:">>
             /\ steps'[10] = <<"Negative root:">>)]_vars

\* evaluate has returned (1j, -1j) for 0 = x^2 + 1
C12_Witness ==
    /\ spc = "returned"
    /\ etype = "quadratic"
    /\ variables.keys = {"y", "a", "b", "c"}
    /\ variables.val["a"] = 1 /\ variables.val["b"] = 0
    /\ variables.val["c"] = 1 /\ variables.val["y"] = 0
    /\ solution.x = <<Complex(PyFloat(0, 1), PyFloat(1, 1)),
                      Complex(PyFloat(0, 1), PyFloat(-1, 1))>>
    /\ steps[13] = <<"x", " = ", "-", "1", "j">>

\* the value the shape's formula gives, and the divisor in it
FormulaValue(e, c) ==
    CASE e = "linear2" -> QDiv(QSub(Q(c["y"]), Q(c["b"])), Q(c["m"]))
      [] e = "linear3" ->
           QDiv(QMul(Q(c["y"]), QAdd(Q(c["c"]), Q(c["d"]))),
                QAdd(Q(c["a"]), Q(c["b"])))
      [] e = "abcdformula" ->
           QDiv(QAdd(Q(c["a"]), QMul(Q(c["b"]), Q(c["c"]))), Q(c["d"]))

FormulaDivisor(e, c) ==
    CASE e = "linear2" -> Q(c["m"])
      [] e = "linear3" -> QAdd(Q(c["a"]), Q(c["b"]))
      [] e = "abcdformula" -> Q(c["d"])

\* t is str() of a float with the value q (zero prints as 0.0 or -0.0)
IsTextOf(t, q) ==
    \/ t = Str(FloatOf(q))
    \/ q.n = 0 /\ t = Str(NegZero)

\* C13: with a full bag and a non-zero divisor evaluate returns, and the
\* value is the shape's formula: x = (y - b)/m for Linear2,
\* x = y(c + d)/(a + b) for Linear3, and (a + b*c)/d, shown in the last
\* line of the step text, for ABCDFormula.
C13_FormulaValue ==
    [][(/\ spc = "constructed"
        /\ etype # "quadratic"
        /\ FullBag(etype, variables)
        /\ FormulaDivisor(etype, Given.c).n # 0
        /\ spc' # "inexact")
         => (/\ spc' = "returned"
             /\ etype \in {"linear2", "linear3"} =>
                   /\ Len(solution'.x) = 1
                   /\ RealRootIs(solution'.x[1], FormulaValue(etype, Given.c))
             /\ etype = "abcdformula" =>
                   /\ Head(steps'[Len(steps')]) = "= "
                   /\ IsTextOf(Tail(steps'[Len(steps')]),
                               FormulaValue(etype, Given.c)))]_vars

\* evaluate has returned for the bag a = 1, b = 2, c = 3, d = 7 of
\* ABCDFormula: the last line is '= 1.0'
C13_Witness ==
    /\ spc = "returned"
    /\ etype = "abcdformula"
    /\ variables.keys = {"a", "b", "c", "d"}
    /\ variables.val["a"] = 1 /\ variables.val["b"] = 2
    /\ variables.val["c"] = 3 /\ variables.val["d"] = 7
    /\ steps[4] = <<"= ", "1", ".", "0">>

\* the numbers Y, M, B a Linear2 equation text is written with
MaxOperand == 10

\* the text 'Y=Mx+B' or 'Y=Mx-B'
Linear2Text(Y, M, op, B) ==
    IntStr(Y) \o <<"=">> \o IntStr(M) \o <<"x", op>> \o IntStr(B)

\* what evaluate gives for the bag {y: Y, m: M, b: B} and no equation
Linear2Bag(Y, M, B) ==
    Bag({"y", "m", "b"}, [y |-> Y, m |-> M, b |-> B])

FromBag(Y, M, B) ==
    Solve("linear2", Coeffs("linear2", None, Linear2Bag(Y, M, B)))

StepsFromBag(Y, M, B) ==
    StepsLinear2(None, Coeffs("linear2", None, Linear2Bag(Y, M, B)).c)

\* the state is the outcome of solving the text with the outcome r and
\* the lines t of the bag: same error or same record, same lines after
\* the first, and the text itself as first line
SameAsBag(r, t) ==
    /\ serr = r.err
    /\ solution = r.sol
    /\ spc = "returned" =>
          /\ Len(steps) = 4
          /\ steps[1] = equation
          /\ \A i \in 2..4 : steps[i] = t[i]

\* the four lines for y, m, b and x, in order
OrderedSteps(y, m, b) ==
    /\ Len(steps) = 4
    /\ steps[2] = IF b > 0
                  THEN IntStr(m) \o <<"x", " = ">> \o IntStr(y) \o <<" - ">>
                           \o IntStr(b)
                  ELSE IF b < 0
                  THEN IntStr(m) \o <<"x", " = ">> \o IntStr(y) \o <<" + ">>
                           \o IntStr(-b)
                  ELSE IntStr(m) \o <<"x", " = ">> \o IntStr(y)
    /\ steps[3] = <<"x", " = ">> \o IntStr(y - b) \o <<" / ">> \o IntStr(m)
    /\ Head(steps[4]) = "x" /\ Head(Tail(steps[4])) = " = "
    /\ IsTextOf(Tail(Tail(steps[4])), Frac(y - b, m))

\* solving the text gives what solving the bag gives
TextModeAsBag ==
    (spc \in {"returned", "raised"} /\ etype = "linear2"
        /\ variables.keys = {}) =>
        \A Y \in 0..MaxOperand, M \in 0..MaxOperand, B \in 0..MaxOperand :
            /\ equation = Linear2Text(Y, M, "+", B) =>
                  /\ SameAsBag(FromBag(Y, M, B), StepsFromBag(Y, M, B))
                  /\ spc = "returned" => OrderedSteps(Y, M, B)
            /\ equation = Linear2Text(Y, M, "-", B) =>
                  /\ SameAsBag(FromBag(Y, M, -B), StepsFromBag(Y, M, -B))
                  /\ spc = "returned" => OrderedSteps(Y, M, -B)

\* in bag mode too the four lines are in order, after the formatted
\* equation
BagModeSteps ==
    (spc = "returned" /\ etype = "linear2" /\ FullBag(etype, variables)) =>
        /\ OrderedSteps(variables.val["y"], variables.val["m"],
                        variables.val["b"])
        /\ steps[1] # <<>>

\* C14: for Linear2, solving the text 'Y=Mx+B' gives the same y, m, b and
\* x as solving the bag {y: Y, m: M, b: B}, and 'Y=Mx-B' the same as the
\* bag {y: Y, m: M, b: -B}; in both modes the step text has four lines in
\* order: the equation, m*x isolated, x = (y - b)/m, the value of x.
C14_TextAsBag == TextModeAsBag /\ BagModeSteps

\* evaluate has returned x = 3.0 for the text '10=2x+4'
C14_Witness ==
    /\ spc = "returned"
    /\ etype = "linear2"
    /\ variables.keys = {}
    /\ equation = <<"1", "0", "=", "2", "x", "+", "4">>
    /\ solution.x = <<Real(PyFloat(3, 1))>>
    /\ steps = << <<"1", "0", "=", "2", "x", "+", "4">>,
                  <<"2", "x", " = ", "1", "0", " - ", "4">>,
                  <<"x", " = ", "6", " / ", "2">>,
                  <<"x", " = ", "3", ".", "0">> >>

\* evaluate has run
Evaluated == spc \in {"returned", "raised"} /\ InitError(equation, variables) = "none"

\* the values of the bag alone
BagValues(bag) == [k \in AllKeys |-> PyInt(bag.val[k])]

\* the outcome is the one of the values c
OutcomeOf(r) == serr = r.err /\ solution = r.sol

\* the lines after the first are those of the values c
LinesOf(c) ==
    \A i \in 2..Len(steps) : steps[i] = Steps(etype, None, c, solution)[i]

\* C15: with every variable of the shape in the bag, all coefficient
\* values are the bag's and the equation string has no influence on the
\* computed values; with a variable missing, every coefficient comes from
\* parsing the equation and none from the partial bag.
C15_BagOrText ==
    Evaluated =>
        /\ FullBag(etype, variables) =>
              /\ OutcomeOf(Solve(etype, [err |-> "none",
                                         c |-> BagValues(variables)]))
              /\ spc = "returned" => LinesOf(BagValues(variables))
        /\ (~FullBag(etype, variables) /\ equation # None) =>
              /\ OutcomeOf(Solve(etype, Coeffs(etype, equation, EmptyBag)))
              /\ spc = "returned" =>
                    LinesOf(Coeffs(etype, equation, EmptyBag).c)

\* evaluate has returned x = 2.5 for the bag y = 3, m = 2, b = -2 given
\* together with the text '10=2x+4'
C15_Witness ==
    /\ spc = "returned"
    /\ etype = "linear2"
    /\ equation = <<"1", "0", "=", "2", "x", "+", "4">>
    /\ variables.keys = {"y", "m", "b"}
    /\ variables.val["y"] = 3 /\ variables.val["m"] = 2
    /\ variables.val["b"] = -2
    /\ solution.x = <<Real(PyFloat(5, 2))>>
    /\ steps[3] = <<"x", " = ", "5", " / ", "2">>

\* the Calculator has returned s
Returned(s) == [err |-> "none", out |-> s]

\* C16: re-invoking reduce on its own output returns that output
\* unchanged whenever the output is a single number, a negative one such
\* as '-3' and a decimal one such as '2.5' included; this holds for the
\* Calculator of bot/ext/calculator.py and for the one of bot/calculator.py.
C16_Idempotent ==
    /\ IsSingleNumber(input) =>
          /\ pc # "raised"
          /\ pc = "done" => expression = input
    /\ (pc = "done" /\ IsSingleNumber(expression)) =>
          CalcStr(expression, ExtSigns) = Returned(expression)
    /\ (/\ CalcStr(input, OldSigns).err = "none"
        /\ IsSingleNumber(CalcStr(input, OldSigns).out)) =>
          CalcStr(CalcStr(input, OldSigns).out, OldSigns)
              = CalcStr(input, OldSigns)

\* __str__ has returned '-3' for '2-5'
C16_Witness ==
    /\ pc = "done"
    /\ input = <<"2", "-", "5">>
    /\ expression = <<"-", "3">>

(***************************************************************************)
(* C17: in the calculator view '=' never lets an exception leave the       *)
(* callback.  When the reduction succeeds the stored expression becomes    *)
(* the result and is shown; when it raises, the display shows 'ERROR' and  *)
(* the stored expression is what it was.  'C' empties the stored text and  *)
(* the backspace button drops its last character, whatever came before.    *)
(***************************************************************************)
Reduced == CalcStr(vtext, SignsOf(calculator))

EqualsShows ==
    pressed' = "=" /\ Reduced.err # "Inexact" =>
        /\ escaped' = "none"
        /\ Reduced.err = "none" =>
              vtext' = Reduced.out /\ display' = Padded(Reduced.out)
        /\ Reduced.err # "none" =>
              vtext' = vtext /\ display' = Padded(ErrorText)

EditKeysAct ==
    /\ pressed' = "C" => vtext' = <<>> /\ display' = Padded(<<>>)
    /\ pressed' = "Back" =>
          /\ Len(vtext') = (IF vtext = <<>> THEN 0 ELSE Len(vtext) - 1)
          /\ IsPrefix(vtext', vtext)
          /\ display' = Padded(vtext')

C17_EqualsHandled ==
    /\ [](calculator # "none" => escaped = "none")
    /\ [][calculator # "none" => EqualsShows /\ EditKeysAct]_vars

C17_Witness ==
    /\ calculator # "none"
    /\ pressed = "="
    /\ response = "edit"
    /\ Reduced.err = "ZeroDivisionError"
    /\ display = Padded(ErrorText)

(***************************************************************************)
(* C18: in manual mode 'Enter' on a text the pattern of the shape does not *)
(* match shows 'Invalid Equation', leaves the entered text as it was and   *)
(* lets no exception leave the callback; any other failure of the solve is *)
(* answered with the 'Oops! An error occured' message.                     *)
(***************************************************************************)
EnterFails == ManualSolve(etype, vtext).err \notin {"none", "Inexact"}

TextMatches == re_match(etype, vtext).ok

C18_EnterHandled ==
    [][calculator = "none" /\ pressed' = "Enter" /\ EnterFails =>
          /\ escaped' = "none"
          /\ vtext' = vtext
          /\ ~TextMatches => display' = Padded(InvalidText)
          /\ TextMatches => response' = "oops"]_vars

(***************************************************************************)
(* Chains: n >= 2 unsigned integers joined by one and the same operator.   *)
(***************************************************************************)
ChainOps == {"+", "-", "*", "/"}

IsChain(s) ==
    /\ Len(s) >= 3
    /\ Chars(s) \subseteq Digits \cup ChainOps
    /\ Cardinality(Chars(s) \cap ChainOps) = 1
    /\ s[1] \in Digits /\ s[Len(s)] \in Digits
    /\ \A i \in 1..(Len(s) - 1) : s[i] \in Digits \/ s[i + 1] \in Digits

\* the position of the last operator of s, 0 when s has none
LastOp(s) ==
    IF \E i \in 1..Len(s) : s[i] \in ChainOps
    THEN CHOOSE i \in 1..Len(s) :
            /\ s[i] \in ChainOps
            /\ \A j \in (i + 1)..Len(s) : s[j] \in Digits
    ELSE 0

\* no operand after a '/' is zero
NoZeroDivisor(s) ==
    \A i \in 1..Len(s) :
        s[i] = "/" => DigitsVal(s, i + 1, DigitsEnd(s, i + 1)) # 0

QOp(op, p, q) ==
    CASE op = "+" -> QAdd(p, q)
      [] op = "-" -> QSub(p, q)
      [] op = "*" -> QMul(p, q)
      [] op = "/" -> QDiv(p, q)

RECURSIVE LeftToRight(_)
\* (((x1 op x2) op x3) ... op xn) of the chain s
LeftToRight(s) ==
    IF LastOp(s) = 0 THEN QInt(DigitsVal(s, 1, Len(s)))
    ELSE QOp(s[LastOp(s)],
             LeftToRight(SubSeq(s, 1, LastOp(s) - 1)),
             QInt(DigitsVal(s, LastOp(s) + 1, Len(s))))

\* the outcome r of a reduction is the single number of the value q
IsNumberOf(r, q) ==
    /\ r.err = "none"
    /\ IsFloatLiteral(r.out)
    /\ LiteralValue(r.out) = q

\* C19: for a chain without a zero divisor reduce does not raise and
\* returns a single number equal to the left-to-right evaluation of the
\* chain, with the Calculator of bot/ext/calculator.py (the state machine)
\* and with the one of bot/calculator.py.
C19_ChainLeftToRight ==
    (IsChain(input) /\ NoZeroDivisor(input)) =>
        /\ pc # "raised" \/ err = "Inexact"
        /\ pc = "done" =>
              IsNumberOf(Returned(expression), LeftToRight(input))
        /\ pc \in {"done", "raised"} =>
              \/ CalcStr(input, OldSigns).err = "Inexact"
              \/ IsNumberOf(CalcStr(input, OldSigns), LeftToRight(input))

\* the outcome of a reduction as the user sees it: the result string, or
\* that an error was raised
Outcome(r) == IF r.err = "none" THEN r.out ELSE <<"error">>

Followed(r) == r.err # "Inexact"

\* C20: the Calculator of bot/calculator.py and the one of
\* bot/ext/calculator.py give the same outcome for every expression typed
\* with the calculator buttons: the same result string, or an error in both.
C20_SameOutcome ==
    (/\ pc \in {"done", "raised"}
     /\ Followed(CalcStr(input, OldSigns))
     /\ Followed(CalcStr(input, ExtSigns))) =>
        /\ Outcome(CalcStr(input, OldSigns)) = Outcome(CalcStr(input, ExtSigns))
        /\ Outcome(CalcStr(input, OldSigns))
              = Outcome([err |-> err, out |-> expression])

(***************************************************************************)
(* Whole-string matching of an equation text.                              *)
(***************************************************************************)
\* the format of a shape: its pattern, closed by the last parenthesis of
\* 'y=x(a+b)/(c+d)' for linear3
Format(e) == IF e = "linear3" THEN Append(Pattern(e), ")") ELSE Pattern(e)

RECURSIVE PatEnd(_, _, _, _)
\* the position behind the match of the tokens pat[k..] at position i of
\* s, 0 when they do not match there
PatEnd(s, i, pat, k) ==
    IF k > Len(pat) THEN i
    ELSE IF pat[k] = "N"
         THEN IF NumEnd(s, i, ExtSigns) = 0 THEN 0
              ELSE PatEnd(s, NumEnd(s, i, ExtSigns) + 1, pat, k + 1)
    ELSE IF pat[k] = "*?"
         THEN PatEnd(s, IF i <= Len(s) /\ s[i] = "*" THEN i + 1 ELSE i,
                     pat, k + 1)
    ELSE IF i > Len(s) THEN 0
    ELSE IF pat[k] = "+-"
         THEN IF s[i] \in {"+", "-"} THEN PatEnd(s, i + 1, pat, k + 1) ELSE 0
    ELSE IF s[i] = pat[k] THEN PatEnd(s, i + 1, pat, k + 1)
    ELSE 0

\* the whole of s is an equation of the shape e
WholeMatch(e, s) == PatEnd(s, 1, Format(e), 1) = Len(s) + 1

\* evaluate reads the equation text
TextMode == equation # None /\ ~FullBag(etype, variables)

\* C21: in free-form mode an equation text is solved only when the whole
\* text matches the format of the shape; a valid equation followed by
\* further characters, or a Linear3 equation without its last closing
\* parenthesis, is not solved from its matching beginning.
C21_WholeStringOnly ==
    [][(spc = "constructed" /\ TextMode /\ ~WholeMatch(etype, equation))
          => spc' # "returned"]_vars

(***************************************************************************)
(* Properties of the EquationView.                                         *)
(***************************************************************************)
\* equation_vars holds a number text for every variable of the shape
AllNumeric ==
    \A v \in EtypeVars(etype) :
        equation_vars[v] # None /\ IsFloatLiteral(equation_vars[v])

\* the last callback was the submission of a text that is no number
NotANumber(p) == Len(p) = 2 /\ p[1] = "submit" /\ ~IsFloatLiteral(p[2])

\* C22: 'Enter' starts disabled; whenever it is enabled, equation_vars
\* holds a number for every variable of the selected shape; a modal
\* submission whose text is not a number changes neither equation_vars,
\* nor the displayed equation, nor the enabled state of any button.
C22_EnterNeedsValues ==
    /\ [](response = "sent" => "Enter" \in disabled)
    /\ []((FormOpen /\ "Enter" \notin disabled) => AllNumeric)
    /\ [][NotANumber(pressed') =>
            UNCHANGED <<equation_vars, latex_eq, disabled>>]_vars

C22_Witness ==
    /\ FormOpen
    /\ "Enter" \notin disabled
    /\ AllNumeric
    /\ NotANumber(pressed)

RECURSIVE Substituted(_, _)
\* the equation t with the stored value in the place of every variable
\* that has one
Substituted(t, ev) ==
    IF t = <<>> THEN <<>>
    ELSE (IF Head(t) \in AllKeys /\ ev[Head(t)] # None
          THEN ev[Head(t)] ELSE <<Head(t)>>) \o Substituted(Tail(t), ev)

\* C23: after any interleaving of variable-button presses and modal
\* submissions, two modals open for one variable included, the displayed
\* equation latex_eq shows for each variable the value equation_vars
\* stores for it.
C23_DisplayedIsStored ==
    FormOpen => latex_eq = Substituted(Latex(etype), equation_vars)

====
